---- MODULE Spec2Model ----
(***************************************************************************)
(* A model of cnx-epub (openstax/cnx-epub): the content model of           *)
(* cnxepub/models.py, the formatters of cnxepub/formatters.py, the         *)
(* packages of cnxepub/epub.py, the adapters of cnxepub/adapters.py and    *)
(* the metadata parsers of cnxepub/html_parsers.py.                        *)
(*                                                                         *)
(* The module holds several specifications, one per part of the library:  *)
(*   SpecRef     Document.content / Document.references / Reference        *)
(*   SpecBinder  TranslucentBinder / Binder as a MutableSequence           *)
(*   SpecFmt     SingleHTMLFormatter on a whole book (sequential)          *)
(*   SpecBuild   SingleHTMLFormatter.build with its worker pool            *)
(*   SpecPackage Package of cnxepub/epub.py                                *)
(*   SpecIdent   id, ident_hash and metadata['version'] of a node          *)
(*   SpecPersons DocumentMetadataParser._parse_person_info                 *)
(*   SpecMake    _make_package of cnxepub/adapters.py                      *)
(*   SpecAdapt   adapt_package of cnxepub/adapters.py and model_to_tree    *)
(*   SpecMeta    DocumentMetadataParser.metadata and adapt_item            *)
(*   SpecOpf     OPFParser.metadata of cnxepub/epub.py                     *)
(*   SpecFlat    flatten_model and flatten_to_documents of models.py       *)
(*   SpecTree    model_to_tree of cnxepub/models.py                        *)
(*   SpecCollate collate of cnxepub/collation.py                           *)
(*   SpecEx      the exercise mutator under the worker pool, formatters.py *)
(*   SpecNum     apply_numchapters of scripts/single_html/main.py          *)
(*   SpecPub     make_publication_epub of cnxepub/adapters.py              *)
(* Every specification leaves the variables of the other parts parked at  *)
(* a constant value.                                                       *)
(*                                                                         *)
(* Python strings that the code takes apart (ids, hrefs) are sequences of  *)
(* one-character strings; None is the string "None" where the value is    *)
(* otherwise a string, and the empty sequence where it is a sequence.      *)
(***************************************************************************)
EXTENDS Integers, Sequences, FiniteSets, TLC

VARIABLES
    \* ---- Document / Reference (models.py) ----
    trees,           \* the lxml trees still referenced: tree id -> its elements [tag, uri]
    doc_xml,         \* Document._xml: the id of the document's current tree
    doc_references,  \* Document._references: the Reference objects [elm, bound_model, uri_template]
    model_id,        \* the id attribute of the objects a reference can be bound to
    ret,             \* what the last operation returned or raised
    \* ---- TranslucentBinder / Binder (models.py) ----
    b_nodes,            \* TranslucentBinder._nodes
    b_title_overrides,  \* TranslucentBinder._title_overrides
    b_ret,              \* what the last binder operation returned or raised
    \* ---- SingleHTMLFormatter (formatters.py) ----
    binder,          \* SingleHTMLFormatter.binder: the book handed to the formatter
    root,            \* SingleHTMLFormatter.root: the elements of the document, in document order
    built,           \* SingleHTMLFormatter.built
    included,        \* SingleHTMLFormatter.included
    out,             \* what bytes(formatter) returned last
    adapted,         \* the binder read back from out
    \* ---- SingleHTMLFormatter.build and its worker pool ----
    includes,        \* SingleHTMLFormatter.includes: the (match, proc) pairs, <<>> for None
    threads,         \* SingleHTMLFormatter.threads
    pc,              \* where the caller of bytes(formatter) is
    inc,             \* the pair of includes the loop of build is at
    pending,         \* the matched elements the loop has still to submit
    tasks,           \* the calls submitted so far: [pair, elem, proc, st]
    \* ---- Package (epub.py) ----
    p_items,         \* the items handed to Package(name, items)
    p_pkg,           \* the Package object the caller holds, <<>> for none
    p_ret,           \* what the last Package operation returned or raised
    \* ---- id / ident_hash (models.py) ----
    i_cls,           \* the class of the node
    i_id,            \* its id (Binder._id, Document._id, the attribute of the others)
    i_version,       \* metadata.get('version')
    i_ret,           \* what the last operation on the node returned or raised
    \* ---- DocumentMetadataParser._parse_person_info (html_parsers.py) ----
    ps_elms,         \* the elements the xpath of a person list matches, in document order
    ps_py,           \* the Python the library runs on: 2 or 3
    ps_ret,          \* what _parse_person_info returned or raised
    \* ---- _make_package (adapters.py) ----
    mk_binder,       \* the binder handed to _make_package
    mk_package,      \* the items of the Package it returned, <<>> before the call
    \* ---- adapt_package / _node_to_model (adapters.py) ----
    ad_tree,         \* the tree parsed from the navigation document of the package
    ad_binder,       \* the model adapt_package returned, <<>> before the call
    ad_out,          \* model_to_tree of that model, <<>> before the call
    \* ---- DocumentMetadataParser (html_parsers.py) and adapt_item ----
    md_doc,          \* the parsed document: which metadata elements it has
    md_py,           \* the Python the library runs on: 2 or 3
    md_call,         \* the call made on the document, <<>> before it
    md_ret,          \* what the call returned or raised
    \* ---- OPFParser (epub.py) ----
    o_opf,           \* the manifest: which of the metadata elements it has
    o_ret,           \* what OPFParser(opf_xml).metadata returned or raised
    \* ---- flatten_model, flatten_to_documents (models.py) ----
    fl_model,        \* the model the traversals are over
    fl_gens,         \* the generators the calls have returned
    \* ---- model_to_tree (models.py) ----
    tr_model,        \* the binder model_to_tree is given
    tr_out,          \* the tree it returned
    \* ---- collate (collation.py) ----
    co_binder,       \* the binder collate is given
    co_resources,    \* the filenames of binder.resources
    co_ret,          \* what collate returned
    \* ---- exercise_callback_factory (formatters.py) ----
    ex_page,         \* the page: the children of each of its paragraphs
    ex_workers,      \* max_workers of the pool
    ex_pc,           \* where the call made for each matched link is
    ex_torn,         \* the calls whose search of the page saw an edit
    \* ---- apply_numchapters (scripts/single_html/main.py) ----
    nc_binder,       \* the binder of the book as single_html adapted it
    nc_numchapters,  \* the number of chapters asked for
    nc_out,          \* the binder after apply_numchapters, <<>> before the call
    \* ---- make_publication_epub (adapters.py) ----
    pb_binders,      \* the binders as they are given
    pb_after,        \* the binders after the call, <<>> before it
    pb_ret           \* how the call ended

refVars == <<trees, doc_xml, doc_references, model_id, ret>>
binderVars == <<b_nodes, b_title_overrides, b_ret>>

fmtVars == <<binder, root, built, included, out, adapted>>

buildVars == <<includes, threads, pc, inc, pending, tasks>>

pkgVars == <<p_items, p_pkg, p_ret>>

\* The parts added to the first four, and those four.
identVars == <<i_cls, i_id, i_version, i_ret>>
persVars == <<ps_elms, ps_py, ps_ret>>
makeVars == <<mk_binder, mk_package>>
adaptVars == <<ad_tree, ad_binder, ad_out>>
metaVars == <<md_doc, md_py, md_call, md_ret>>
opfVars == <<o_opf, o_ret>>
flatVars == <<fl_model, fl_gens>>
treeVars == <<tr_model, tr_out>>
collateVars == <<co_binder, co_resources, co_ret>>
exVars == <<ex_page, ex_workers, ex_pc, ex_torn>>
numVars == <<nc_binder, nc_numchapters, nc_out>>
pubVars == <<pb_binders, pb_after, pb_ret>>
extVars == <<pkgVars, identVars, persVars, makeVars, adaptVars, metaVars, opfVars, flatVars, treeVars, collateVars, exVars, numVars, pubVars>>
coreVars == <<refVars, binderVars, fmtVars, buildVars>>

vars == <<coreVars, extVars>>

\* What the operations of one part leave alone: the variables of the others.
notRef == <<binderVars, fmtVars, buildVars, extVars>>
notBinder == <<refVars, fmtVars, buildVars, extVars>>
notFmt == <<refVars, binderVars, buildVars, extVars>>
notBuild == <<refVars, binderVars, adapted, extVars>>
notPkg == <<coreVars, identVars, persVars, makeVars, adaptVars, metaVars, opfVars, flatVars, treeVars, collateVars, exVars, numVars, pubVars>>
notIdent == <<coreVars, pkgVars, persVars, makeVars, adaptVars, metaVars, opfVars, flatVars, treeVars, collateVars, exVars, numVars, pubVars>>
notPers == <<coreVars, pkgVars, identVars, makeVars, adaptVars, metaVars, opfVars, flatVars, treeVars, collateVars, exVars, numVars, pubVars>>
notMake == <<coreVars, pkgVars, identVars, persVars, adaptVars, metaVars, opfVars, flatVars, treeVars, collateVars, exVars, numVars, pubVars>>
notAdapt == <<coreVars, pkgVars, identVars, persVars, makeVars, metaVars, opfVars, flatVars, treeVars, collateVars, exVars, numVars, pubVars>>
notMeta == <<coreVars, pkgVars, identVars, persVars, makeVars, adaptVars, opfVars, flatVars, treeVars, collateVars, exVars, numVars, pubVars>>
notOpf == <<coreVars, pkgVars, identVars, persVars, makeVars, adaptVars, metaVars, flatVars, treeVars, collateVars, exVars, numVars, pubVars>>
notFlat == <<coreVars, pkgVars, identVars, persVars, makeVars, adaptVars, metaVars, opfVars, treeVars, collateVars, exVars, numVars, pubVars>>
notTree == <<coreVars, pkgVars, identVars, persVars, makeVars, adaptVars, metaVars, opfVars, flatVars, collateVars, exVars, numVars, pubVars>>
notCollate == <<coreVars, pkgVars, identVars, persVars, makeVars, adaptVars, metaVars, opfVars, flatVars, treeVars, exVars, numVars, pubVars>>
notEx == <<coreVars, pkgVars, identVars, persVars, makeVars, adaptVars, metaVars, opfVars, flatVars, treeVars, collateVars, numVars, pubVars>>
notNum == <<coreVars, pkgVars, identVars, persVars, makeVars, adaptVars, metaVars, opfVars, flatVars, treeVars, collateVars, exVars, pubVars>>
notPub == <<coreVars, pkgVars, identVars, persVars, makeVars, adaptVars, metaVars, opfVars, flatVars, treeVars, collateVars, exVars, numVars>>

----------------------------------------------------------------------------
(* Generic helpers *)

None == "None"

Range(s) == {s[i] : i \in DOMAIN s}

Min(a, b) == IF a < b THEN a ELSE b
Max(a, b) == IF a > b THEN a ELSE b

\* The sequences over S of length at most n.
SeqsUpTo(S, n) == UNION {[1..k -> S] : k \in 0..n}

----------------------------------------------------------------------------
(* The variables of the parts a specification does not run. *)

ParkRef ==
    /\ trees = <<>> /\ doc_xml = 0 /\ doc_references = <<>>
    /\ model_id = <<>> /\ ret = <<>>

ParkBinder == b_nodes = <<>> /\ b_title_overrides = <<>> /\ b_ret = ""

ParkFmt ==
    /\ binder = <<>> /\ root = <<>> /\ built = FALSE /\ included = FALSE
    /\ out = <<>> /\ adapted = <<>>

ParkBuild ==
    /\ includes = <<>> /\ threads = 1 /\ pc = "" /\ inc = 0
    /\ pending = <<>> /\ tasks = <<>>

ParkPkg == p_items = <<>> /\ p_pkg = <<>> /\ p_ret = <<>>

ParkCore == ParkRef /\ ParkBinder /\ ParkFmt /\ ParkBuild
ParkIdent == i_cls = "" /\ i_id = <<>> /\ i_version = <<>> /\ i_ret = <<>>

ParkPers == ps_elms = <<>> /\ ps_py = 0 /\ ps_ret = <<>>

ParkMake == mk_binder = <<>> /\ mk_package = <<>>

ParkAdapt == ad_tree = <<>> /\ ad_binder = <<>> /\ ad_out = <<>>

ParkMeta == md_doc = <<>> /\ md_py = 0 /\ md_call = <<>> /\ md_ret = <<>>

ParkOpf == o_opf = <<>> /\ o_ret = <<>>

ParkFlat == fl_model = <<>> /\ fl_gens = <<>>

ParkTree == tr_model = <<>> /\ tr_out = <<>>

ParkCollate == co_binder = <<>> /\ co_resources = <<>> /\ co_ret = <<>>

ParkEx == ex_page = <<>> /\ ex_workers = 0 /\ ex_pc = <<>> /\ ex_torn = {}

ParkNum == nc_binder = <<>> /\ nc_numchapters = 0 /\ nc_out = <<>>

ParkPub == pb_binders = <<>> /\ pb_after = <<>> /\ pb_ret = <<>>

ParkExt == ParkPkg /\ ParkIdent /\ ParkPers /\ ParkMake /\ ParkAdapt /\ ParkMeta /\ ParkOpf /\ ParkFlat /\ ParkTree /\ ParkCollate /\ ParkEx /\ ParkNum /\ ParkPub

----------------------------------------------------------------------------
(***************************************************************************)
(* Document and Reference: models.py                                       *)
(*                                                                         *)
(* An element is named by the tree it was parsed into and its position    *)
(* there; a tree lives as long as the document or one of the document's   *)
(* Reference objects points into it.  The caller reaches Reference        *)
(* objects through document.references.                                   *)
(***************************************************************************)

\* Bounds of the Document / Reference model.
MaxTrees == 2       \* content trees one run makes (the constructor's included)

Models == {"m1", "m2"}          \* objects a reference can be bound to
ModelIds == {"r1", "r2"}        \* the ids they can carry
Placeholder == "{}"
Templates == {<<"../resources/", Placeholder>>, <<Placeholder>>}
ManualUris == {<<"http://example.com/x">>}

\* Document content, as the elements the parser makes of it: tag and the
\* value of the attribute that carries a URI (href of a, src of img).
ContentValues ==
    { <<>>,
      <<[tag |-> "p", uri |-> <<>>],
        [tag |-> "a", uri |-> <<"m23409.xhtml">>]>>,
      <<[tag |-> "img", uri |-> <<"../resources/openstax.png">>],
        [tag |-> "a", uri |-> <<"m23409.xhtml">>]>> }

\* What an operation that returns nothing of interest leaves in ret.
NoRet == [op |-> "none", ref |-> 0, value |-> <<>>]

\* str.format(id) of a template with '{}' replacement fields.
Format(template, id) ==
    [i \in DOMAIN template |-> IF template[i] = Placeholder THEN id ELSE template[i]]

\* HTMLReferenceFinder.__iter__ over the elements of a tree: the anchors in
\* document order, then the media elements in document order.
RECURSIVE FindFrom(_, _, _)
FindFrom(es, i, tag) ==
    IF i > Len(es) THEN <<>>
    ELSE (IF es[i].tag = tag /\ es[i].uri # <<>> THEN <<i>> ELSE <<>>)
         \o FindFrom(es, i + 1, tag)

HTMLReferenceFinder(es) == FindFrom(es, 1, "a") \o FindFrom(es, 1, "img")

\* _parse_references: one new, unbound Reference per found element of tree t.
ParseReferences(es, t) ==
    LET found == HTMLReferenceFinder(es)
    IN [i \in DOMAIN found |->
            [elm |-> [tree |-> t, ix |-> found[i]],
             bound_model |-> None, uri_template |-> <<>>]]

\* elm.get(uri_attr) / elm.set(uri_attr, value)
ElmGet(ts, elm) == ts[elm.tree][elm.ix].uri
ElmSet(ts, elm, value) == [ts EXCEPT ![elm.tree][elm.ix].uri = value]

\* The trees that stay alive: the document's and those its references point into.
Live(ts, xml, references) ==
    LET keep == {xml} \cup {references[i].elm.tree : i \in DOMAIN references}
    IN [t \in keep |-> ts[t]]

\* Reference.is_bound answering that nothing is bound.
IsBoundNever(ref) == FALSE
\* Reference.is_bound
IsBound(ref) == ref.bound_model # None

\* Reference._set_uri_from_bound_model: the trees after the write.
SetUriFromBoundModel(ts, ref, ids) ==
    ElmSet(ts, ref.elm, Format(ref.uri_template, ids[ref.bound_model]))

\* Reference._get_uri with the refresh left out: the trees are as they were.
GetUriNoRefresh(ref) == trees

\* Reference._get_uri: the trees after the read (the read refreshes the
\* attribute of a bound reference); the value returned is the attribute then.
GetUriTrees(ref) ==
    IF IsBound(ref) THEN SetUriFromBoundModel(trees, ref, model_id) ELSE trees

\* Document._content__set: the references are reloaded from the new tree.
ContentSetReferences(es, t) == ParseReferences(es, t)

\* Document.__init__(id, data)
InitRef ==
    \E value \in ContentValues :
        /\ trees = [t \in {1} |-> value]
        /\ doc_xml = 1
        /\ doc_references = ParseReferences(value, 1)
        /\ model_id \in [Models -> ModelIds]
        /\ ret = NoRet
        /\ ParkBinder /\ ParkFmt /\ ParkBuild /\ ParkExt

\* document.content = value
ContentSet(value) ==
    /\ doc_xml < MaxTrees
    /\ doc_xml' = doc_xml + 1
    /\ doc_references' = ContentSetReferences(value, doc_xml')
    /\ trees' = Live([t \in DOMAIN trees \cup {doc_xml'} |->
                         IF t = doc_xml' THEN value ELSE trees[t]],
                     doc_xml', doc_references')
    /\ ret' = NoRet
    /\ UNCHANGED <<model_id, notRef>>

\* del document.content
ContentDel ==
    /\ doc_xml < MaxTrees
    /\ doc_xml' = doc_xml + 1          \* etree.Element('div'): a new, empty tree
    /\ trees' = Live([t \in DOMAIN trees \cup {doc_xml'} |->
                         IF t = doc_xml' THEN <<>> ELSE trees[t]],
                     doc_xml', doc_references)
    /\ ret' = NoRet
    /\ UNCHANGED <<doc_references, model_id, notRef>>

\* document.references[r].bind(model, template)
Bind(r, m, template) ==
    /\ doc_references' = [doc_references EXCEPT ![r].bound_model = m,
                                                ![r].uri_template = template]
    /\ trees' = SetUriFromBoundModel(trees, doc_references'[r], model_id)
    /\ ret' = NoRet
    /\ UNCHANGED <<doc_xml, model_id, notRef>>

\* document.references[r].unbind()
Unbind(r) ==
    /\ IsBound(doc_references[r])
    /\ doc_references' = [doc_references EXCEPT ![r].bound_model = None,
                                                ![r].uri_template = <<>>]
    /\ ret' = NoRet
    /\ UNCHANGED <<trees, doc_xml, model_id, notRef>>

\* document.references[r].uri (read)
GetUri(r) ==
    /\ trees' = GetUriTrees(doc_references[r])
    /\ ret' = [op |-> "uri", ref |-> r, value |-> ElmGet(trees', doc_references[r].elm)]
    /\ UNCHANGED <<doc_xml, doc_references, model_id, notRef>>

\* document.references[r].uri = value
SetUri(r, value) ==
    /\ IF IsBound(doc_references[r])
       THEN /\ ret' = [op |-> "ValueError", ref |-> r, value |-> <<>>]
            /\ trees' = trees
       ELSE /\ trees' = ElmSet(trees, doc_references[r].elm, value)
            /\ ret' = NoRet
    /\ UNCHANGED <<doc_xml, doc_references, model_id, notRef>>

\* model.id = id, on an object references may be bound to
SetModelId(m, id) ==
    /\ model_id[m] # id
    /\ model_id' = [model_id EXCEPT ![m] = id]
    /\ ret' = NoRet
    /\ UNCHANGED <<trees, doc_xml, doc_references, notRef>>

NextRef ==
    \/ \E value \in ContentValues : ContentSet(value)
    \/ ContentDel
    \/ \E r \in DOMAIN doc_references, m \in Models, t \in Templates : Bind(r, m, t)
    \/ \E r \in DOMAIN doc_references : Unbind(r)
    \/ \E r \in DOMAIN doc_references : GetUri(r)
    \/ \E r \in DOMAIN doc_references, v \in ManualUris : SetUri(r, v)
    \/ \E m \in Models, id \in ModelIds : SetModelId(m, id)

SpecRef == InitRef /\ [][NextRef]_vars

(* ---- Properties of Document and Reference ---- *)

\* A reference of the document whose element is part of the document's content.
InContent(ref) == ref.elm.tree = doc_xml

\* What the bind template gives for the bound model's id now.
DerivedUri(ref) == Format(ref.uri_template, model_id[ref.bound_model])

\* C8: in every reachable state, the URI that a bound reference has stored in
\* the page content (the attribute Document.content serializes) equals the bind
\* template applied to the target's current id.
C8_StoredUriInSync ==
    \A r \in DOMAIN doc_references :
        (IsBound(doc_references[r]) /\ InContent(doc_references[r]))
            => ElmGet(trees, doc_references[r].elm) = DerivedUri(doc_references[r])

\* C9: a read of reference.uri of a bound reference returns the template
\* formatted with the model's id at the time of the read, and neither the
\* read nor a bind changes the URI of any other reference of the document.
C9_ReadFollowsTarget ==
    [][\A r \in DOMAIN doc_references :
          /\ (GetUri(r) /\ IsBound(doc_references[r]))
                => ret'.value = DerivedUri(doc_references[r])
          /\ (GetUri(r) \/ \E m \in Models, t \in Templates : Bind(r, m, t))
                => \A q \in DOMAIN doc_references \ {r} :
                      ElmGet(trees', doc_references[q].elm)
                          = ElmGet(trees, doc_references[q].elm)]_refVars

\* C9 witness: a read just returned the URI derived from the target's present
\* id while another reference, bound to the same target with the same template
\* before the id changed, still stores the URI of the old id.
C9_Witness ==
    /\ ret.op = "uri"
    /\ IsBound(doc_references[ret.ref])
    /\ ret.value = DerivedUri(doc_references[ret.ref])
    /\ \E q \in DOMAIN doc_references \ {ret.ref} :
          /\ doc_references[q].bound_model = doc_references[ret.ref].bound_model
          /\ doc_references[q].uri_template = doc_references[ret.ref].uri_template
          /\ ElmGet(trees, doc_references[q].elm) # ret.value

\* C10: Document.references is exactly the list of references found in the
\* document's current content: one per link or media element of the current
\* tree, in the finder's order, and none whose element is of an earlier tree.
C10_ReferencesAreCurrent ==
    [i \in DOMAIN doc_references |-> doc_references[i].elm]
        = [i \in DOMAIN HTMLReferenceFinder(trees[doc_xml]) |->
              [tree |-> doc_xml, ix |-> HTMLReferenceFinder(trees[doc_xml])[i]]]

\* The URIs a template can give.
DerivedUris(template) == {Format(template, id) : id \in ModelIds}

\* C25: assigning reference.uri while the reference is bound raises
\* ValueError and changes neither the stored URI nor the binding; unbind
\* leaves the stored URI as it is, which is one derived from the template;
\* a read of an unbound reference returns the stored URI whatever the id of
\* any model is now, and an assignment to an unbound reference stores the
\* value given.
C25_BoundUriIsReadOnly ==
    [][\A r \in DOMAIN doc_references :
          LET ref == doc_references[r]
              bound == ref.bound_model # None
          IN  /\ \A v \in ManualUris :
                    SetUri(r, v) =>
                        IF bound
                          THEN /\ ret'.op = "ValueError"
                               /\ trees' = trees
                               /\ doc_references' = doc_references
                          ELSE /\ ret'.op # "ValueError"
                               /\ ElmGet(trees', ref.elm) = v
              /\ Unbind(r) =>
                    /\ ElmGet(trees', ref.elm) = ElmGet(trees, ref.elm)
                    /\ ElmGet(trees', ref.elm) \in DerivedUris(ref.uri_template)
                    /\ doc_references'[r].bound_model = None
              /\ (GetUri(r) /\ ~bound) =>
                    /\ ret'.value = ElmGet(trees, ref.elm)
                    /\ trees' = trees]_refVars

\* C25 witness: an assignment to a bound reference has just been refused,
\* and the reference still stores the URI derived from an id its target no
\* longer has; another reference, unbound again after a bind, stores a
\* manual URI.
C25_Witness ==
    /\ ret.op = "ValueError"
    /\ IsBound(doc_references[ret.ref])
    /\ ElmGet(trees, doc_references[ret.ref].elm) # DerivedUri(doc_references[ret.ref])
    /\ ElmGet(trees, doc_references[ret.ref].elm)
            \in DerivedUris(doc_references[ret.ref].uri_template)
    /\ \E q \in DOMAIN doc_references \ {ret.ref} :
          /\ ~IsBound(doc_references[q])
          /\ ElmGet(trees, doc_references[q].elm) \in ManualUris

----------------------------------------------------------------------------
(***************************************************************************)
(* TranslucentBinder / Binder as a MutableSequence: models.py              *)
(*                                                                         *)
(* Python indexes count from 0 and may be negative; the sequences here    *)
(* count from 1.  Nodes are compared by identity (no model defines __eq__).*)
(***************************************************************************)

\* Bounds of the binder model.
MaxLen == 3         \* children a binder grows to

NodeObjs == {"n1", "n2", "n3"}      \* the node objects that can be children
Titles == {"T1", "T2"}              \* title override values (besides None)
Indexes == (0 - MaxLen)..MaxLen     \* Python item indexes the caller passes
Bounds == 0..MaxLen                 \* Python slice bounds the caller passes

\* list.index(v): the first position of v (1-based), 0 when v is absent
\* (Python raises ValueError).
ListIndex(s, v) ==
    IF \E i \in DOMAIN s : s[i] = v
    THEN CHOOSE i \in DOMAIN s : s[i] = v /\ \A j \in 1..(i - 1) : s[j] # v
    ELSE 0

\* A Python item index on a list of length n: its 1-based position, 0 when
\* the index is out of range (Python raises IndexError).
ItemPos(i, n) ==
    IF i >= 0 /\ i < n THEN i + 1
    ELSE IF i < 0 /\ i + n >= 0 THEN i + n + 1
    ELSE 0

\* A Python slice bound on a list of length n, clamped: 0..n.
SliceBound(i, n) == IF i < 0 THEN Max(i + n, 0) ELSE Min(i, n)

\* list.insert(i, v)
ListInsert(s, i, v) ==
    LET k == SliceBound(i, Len(s))
    IN SubSeq(s, 1, k) \o <<v>> \o SubSeq(s, k + 1, Len(s))

\* del s[pos] for a 1-based position
ListDelete(s, pos) == SubSeq(s, 1, pos - 1) \o SubSeq(s, pos + 1, Len(s))

\* s[start:stop] = vs  (and del s[start:stop] with vs empty)
ListSetSlice(s, start, stop, vs) ==
    LET lo == SliceBound(start, Len(s))
        hi == Max(lo, SliceBound(stop, Len(s)))
    IN SubSeq(s, 1, lo) \o vs \o SubSeq(s, hi + 1, Len(s))

RECURSIVE ListReverse(_)
ListReverse(s) == IF s = <<>> THEN <<>> ELSE ListReverse(Tail(s)) \o <<Head(s)>>

\* TranslucentBinder.insert(i, v) on the two lists: <<_nodes, _title_overrides>>
\* afterwards.  Each list places the index by its own length.
InsertBoth(ns, os, i, v) == <<ListInsert(ns, i, v), ListInsert(os, i, None)>>

\* MutableSequence.extend(vs): append(v), that is insert(len(self), v), per value.
RECURSIVE ExtendBoth(_, _, _)
ExtendBoth(ns, os, vs) ==
    IF vs = <<>> THEN <<ns, os>>
    ELSE LET one == InsertBoth(ns, os, Len(ns), Head(vs))
         IN ExtendBoth(one[1], one[2], Tail(vs))

\* TranslucentBinder() : an empty binder
InitBinder ==
    /\ b_nodes = <<>>
    /\ b_title_overrides = <<>>
    /\ b_ret = "ok"
    /\ ParkRef /\ ParkFmt /\ ParkBuild /\ ParkExt

\* TranslucentBinder(nodes, metadata, title_overrides) / Binder(id, nodes, ...):
\* the binder under watch becomes the new object, unless the constructor raises.
\* given says whether title_overrides was passed (is not None).
Construct(nodes, given, title_overrides) ==
    IF given /\ Len(nodes) # Len(title_overrides)
    THEN /\ b_ret' = "ValueError"
         /\ UNCHANGED <<b_nodes, b_title_overrides, notBinder>>
    ELSE /\ b_nodes' = nodes
         /\ b_title_overrides' = IF given THEN title_overrides
                                 ELSE [i \in DOMAIN nodes |-> None]
         /\ b_ret' = "ok" /\ UNCHANGED notBinder

\* binder.insert(i, v)
Insert(i, v) ==
    /\ Len(b_nodes) < MaxLen /\ Len(b_title_overrides) < MaxLen
    /\ b_nodes' = InsertBoth(b_nodes, b_title_overrides, i, v)[1]
    /\ b_title_overrides' = InsertBoth(b_nodes, b_title_overrides, i, v)[2]
    /\ b_ret' = "ok" /\ UNCHANGED notBinder

\* binder.append(v): MutableSequence.append is insert(len(self), v)
AppendNode(v) == Insert(Len(b_nodes), v)

\* binder.extend(vs): MutableSequence.extend appends each value in turn
Extend(vs) ==
    /\ Len(b_nodes) + Len(vs) <= MaxLen /\ Len(b_title_overrides) + Len(vs) <= MaxLen
    /\ b_nodes' = ExtendBoth(b_nodes, b_title_overrides, vs)[1]
    /\ b_title_overrides' = ExtendBoth(b_nodes, b_title_overrides, vs)[2]
    /\ b_ret' = "ok" /\ UNCHANGED notBinder

\* del binder[i]
DelItem(i) ==
    LET pos == ItemPos(i, Len(b_nodes))
    IN IF pos = 0
       THEN b_ret' = "IndexError" /\ UNCHANGED <<b_nodes, b_title_overrides, notBinder>>
       ELSE /\ b_nodes' = ListDelete(b_nodes, pos)
            /\ IF ItemPos(i, Len(b_title_overrides)) = 0
               THEN /\ b_title_overrides' = b_title_overrides
                    /\ b_ret' = "IndexError" /\ UNCHANGED notBinder
               ELSE /\ b_title_overrides' =
                          ListDelete(b_title_overrides, ItemPos(i, Len(b_title_overrides)))
                    /\ b_ret' = "ok" /\ UNCHANGED notBinder

\* del binder[start:stop]
DelSlice(start, stop) ==
    /\ b_nodes' = ListSetSlice(b_nodes, start, stop, <<>>)
    /\ b_title_overrides' = ListSetSlice(b_title_overrides, start, stop, <<>>)
    /\ b_ret' = "ok" /\ UNCHANGED notBinder

\* binder.pop(i): MutableSequence.pop is v = self[i]; del self[i]; return v
Pop(i) == DelItem(i)

\* binder.remove(v): MutableSequence.remove is del self[self.index(v)]
Remove(v) ==
    IF ListIndex(b_nodes, v) = 0
    THEN b_ret' = "ValueError" /\ UNCHANGED <<b_nodes, b_title_overrides, notBinder>>
    ELSE DelItem(ListIndex(b_nodes, v) - 1)

\* binder[i] = v
SetItem(i, v) ==
    LET pos == ItemPos(i, Len(b_nodes))
    IN IF pos = 0
       THEN b_ret' = "IndexError" /\ UNCHANGED <<b_nodes, b_title_overrides, notBinder>>
       ELSE /\ b_nodes' = [b_nodes EXCEPT ![pos] = v]
            /\ b_ret' = "ok" /\ UNCHANGED notBinder
            /\ UNCHANGED b_title_overrides

\* binder[start:stop] = vs
SetSlice(start, stop, vs) ==
    /\ Len(ListSetSlice(b_nodes, start, stop, vs)) <= MaxLen
    /\ b_nodes' = ListSetSlice(b_nodes, start, stop, vs)
    /\ UNCHANGED b_title_overrides
    /\ b_ret' = "ok" /\ UNCHANGED notBinder

\* binder.reverse(): MutableSequence.reverse swaps the items through
\* __setitem__, which leaves the override list alone
Reverse ==
    /\ b_nodes' = ListReverse(b_nodes)
    /\ b_ret' = "ok" /\ UNCHANGED notBinder
    /\ UNCHANGED b_title_overrides

\* binder.set_title_for_node(node, title)
SetTitleForNode(node, title) ==
    LET index == ListIndex(b_nodes, node)
    IN IF index = 0
       THEN b_ret' = "ValueError" /\ UNCHANGED <<b_nodes, b_title_overrides, notBinder>>
       ELSE IF index > Len(b_title_overrides)
       THEN b_ret' = "IndexError" /\ UNCHANGED <<b_nodes, b_title_overrides, notBinder>>
       ELSE /\ b_title_overrides' = [b_title_overrides EXCEPT ![index] = title]
            /\ b_ret' = "ok" /\ UNCHANGED notBinder
            /\ UNCHANGED b_nodes

NextBinder ==
    \/ \E nodes \in SeqsUpTo(NodeObjs, 2) :
          \/ Construct(nodes, FALSE, <<>>)
          \/ \E t \in SeqsUpTo(Titles \cup {None}, 2) : Construct(nodes, TRUE, t)
    \/ \E i \in Indexes, v \in NodeObjs : Insert(i, v)
    \/ \E v \in NodeObjs : AppendNode(v)
    \/ \E vs \in SeqsUpTo(NodeObjs, 2) : Extend(vs)
    \/ \E i \in Indexes : DelItem(i)
    \/ \E a \in Bounds, b \in Bounds : DelSlice(a, b)
    \/ \E i \in Indexes : Pop(i)
    \/ \E v \in NodeObjs : Remove(v)
    \/ \E i \in Indexes, v \in NodeObjs : SetItem(i, v)
    \/ \E a \in Bounds, b \in Bounds, vs \in SeqsUpTo(NodeObjs, 2) : SetSlice(a, b, vs)
    \/ Reverse
    \/ \E n \in NodeObjs, t \in Titles \cup {None} : SetTitleForNode(n, t)

SpecBinder == InitBinder /\ [][NextBinder]_vars

(* ---- Properties of the binder ---- *)

\* C7: in every reachable state of a Binder or TranslucentBinder the
\* title-override list has exactly as many entries as the child list.
C7_OverridesMatchChildren == Len(b_title_overrides) = Len(b_nodes)

----------------------------------------------------------------------------
(***************************************************************************)
(* SingleHTMLFormatter: formatters.py                                      *)
(*                                                                         *)
(* A node of the book is a record                                          *)
(*   [obj, kind, id, title, authors, content, nodes, title_overrides]      *)
(* obj names the Python object (the same object can sit at two places),    *)
(* kind is its class, id is Binder.id / Document.id / the pointer's        *)
(* ident_hash (empty for a TranslucentBinder, whose id is None), title is  *)
(* metadata['title'], authors the number of metadata['authors'], content   *)
(* the elements [tag, id, href, text] of a page's content in document      *)
(* order.                                                                  *)
(* An element of the document written is a record                          *)
(*   [tag, type, id, href, text, depth, orig, of]                          *)
(* type is its data-type, depth its nesting depth under body, orig the     *)
(* href the element had in the source page and of the obj of the node it   *)
(* was written for; an absent attribute is the empty sequence.             *)
(***************************************************************************)

\* ---- str methods ----

\* s.startswith(p)
StartsWith(s, p) == Len(s) >= Len(p) /\ SubSeq(s, 1, Len(p)) = p

\* s.replace(c, '') and s.replace(c, d) for one-character c, d
RemoveChar(s, c) == SelectSeq(s, LAMBDA x : x # c)
ReplaceChar(s, c, d) == [i \in DOMAIN s |-> IF s[i] = c THEN d ELSE s[i]]

\* s.index(c) for c in the set seps, 0 where Python raises or re finds none
FirstIndex(s, seps) ==
    IF \E i \in DOMAIN s : s[i] \in seps
    THEN CHOOSE i \in DOMAIN s :
            s[i] \in seps /\ \A j \in 1..(i - 1) : s[j] \notin seps
    ELSE 0

\* s.split('@')[0], re.split('@|#', s)[0]
SplitFirst(s, seps) ==
    IF FirstIndex(s, seps) = 0 THEN s ELSE SubSeq(s, 1, FirstIndex(s, seps) - 1)

\* The literals of formatters.py.
PAGE_ == <<"p", "a", "g", "e", "_">>
AUTO_ == <<"a", "u", "t", "o", "_">>
CONTENTS == <<"/", "c", "o", "n", "t", "e", "n", "t", "s", "/">>
TOC == <<"t", "o", "c">>
Digits == <<"1", "2", "3", "4">>

\* '{}-{}'.format('author', loop.index)
AuthorSpanId(i) == <<"a", "u", "t", "h", "o", "r", "-", Digits[i]>>

\* ---- the classes ----

IsTranslucentBinder(node) == node.kind \in {"TranslucentBinder", "Binder"}
IsDocument(node) == node.kind \in {"Document", "CompositeDocument"}

\* ---- building the elements ----

El(tag, type, id, href, text, depth, of) ==
    [tag |-> tag, type |-> type, id |-> id, href |-> href, text |-> text,
     depth |-> depth, orig |-> href, of |-> of]

\* get_node_type with every document-like node a page.
GetNodeTypeAllPages(node, parent) ==
    IF node.kind \in {"Document", "CompositeDocument", "DocumentPointer"} THEN "page"
    ELSE IF node.kind = "Binder" /\ parent = None THEN "book"
    ELSE IF \E i \in DOMAIN node.nodes : IsTranslucentBinder(node.nodes[i])
         THEN "unit"
    ELSE "chapter"
\* SingleHTMLFormatter.get_node_type(node, parent)
GetNodeType(node, parent) ==
    IF node.kind = "CompositeDocument" THEN "composite-page"
    ELSE IF node.kind \in {"Document", "DocumentPointer"} THEN "page"
    ELSE IF node.kind = "Binder" /\ parent = None THEN "book"
    ELSE IF \E i \in DOMAIN node.nodes : IsTranslucentBinder(node.nodes[i])
         THEN "unit"
    ELSE "chapter"

\* _generate_ids with step 1 only: the ids prefixed, the links left alone.
GenerateIdsStep1(document, content) ==
    [i \in DOMAIN content |->
        [content[i] EXCEPT
            !.id = IF @ # <<>>
                   THEN AUTO_ \o RemoveChar(document.id, "_") \o <<"_">> \o @
                   ELSE @]]
\* HTMLFormatter._generate_ids(document, content): the content after it.
GenerateIds(document, content) ==
    LET NewId(old_id) ==
            AUTO_ \o RemoveChar(document.id, "_") \o <<"_">> \o old_id
        old_ids == {content[i].id : i \in {j \in DOMAIN content : content[j].id # <<>>}}
    IN  [i \in DOMAIN content |->
            [content[i] EXCEPT
                !.id = IF @ # <<>> THEN NewId(@) ELSE @,
                !.href = IF /\ content[i].tag = "a" /\ @ # <<>>
                            /\ Head(@) = "#" /\ Tail(@) \in old_ids
                         THEN <<"#">> \o NewId(Tail(@)) ELSE @]]

\* The div data-type="metadata" of HTML_DOCUMENT with what is in it that
\* carries an id or an href: one span and one anchor per author.
MetadataBlock(node, depth) ==
    LET RECURSIVE Authors(_)
        Authors(i) ==
            IF i > node.authors THEN <<>>
            ELSE << El("span", "author", AuthorSpanId(i), <<>>, "", depth + 2, node.obj),
                    El("a", "cnx-id", <<>>, <<"yum">>, "", depth + 3, node.obj) >>
                 \o Authors(i + 1)
    IN  << El("div", "metadata", <<>>, <<>>, "", depth, node.obj),
           El("h1", "document-title", <<>>, <<>>, node.title, depth + 1, node.obj) >>
        \o Authors(1)

\* The children of body in bytes(HTMLFormatter(node, generate_ids=True)) for
\* a Document (HTML_DOCUMENT) and for a DocumentPointer
\* (DOCUMENT_POINTER_TEMPLATE).
PageBody(node, depth) ==
    IF IsDocument(node)
    THEN MetadataBlock(node, depth)
         \o [i \in DOMAIN node.content |->
                LET c == GenerateIds(node, node.content)[i]
                IN [El(c.tag, "", c.id, c.href, c.text, depth, node.obj)
                        EXCEPT !.orig = node.content[i].href]]
    ELSE << El("div", "metadata", <<>>, <<>>, "", depth, node.obj),
            El("h1", "document-title", <<>>, <<>>, node.title, depth + 1, node.obj),
            El("div", "", <<>>, <<>>, "", depth, node.obj),
            El("a", "", <<>>, <<"http://pointer">>, "", depth + 2, node.obj) >>

\* SingleHTMLFormatter._build_binder(binder, elem): the elements appended
\* under elem, which is at depth - 1.
RECURSIVE BuildBinder(_, _)
BuildBinder(node_binder, depth) ==
    LET binder_type == GetNodeType(node_binder, None)
        ChildElem(node) ==
            LET node_type == GetNodeType(node, binder_type)
                id_prefix == IF node_type = "page" /\ ~StartsWith(node.id, PAGE_)
                             THEN PAGE_ ELSE <<>>
            IN El("div", node_type,
                  IF node.id # <<>> THEN id_prefix \o node.id ELSE <<>>,
                  <<>>, "", depth, node.obj)
        NodeElems(node) ==
            IF IsTranslucentBinder(node)
            THEN <<ChildElem(node)>> \o MetadataBlock(node, depth + 1)
                 \o <<El("h1", "document-title", <<>>, <<>>, node.title, depth + 1, node.obj)>>
                 \o BuildBinder(node, depth + 1)
            ELSE <<ChildElem(node)>> \o PageBody(node, depth + 1)
        RECURSIVE Each(_)
        Each(i) == IF i > Len(node_binder.nodes) THEN <<>>
                   ELSE NodeElems(node_binder.nodes[i]) \o Each(i + 1)
    IN  Each(1)

\* flatten_model(model)
RECURSIVE FlattenModel(_)
FlattenModel(model) ==
    LET RECURSIVE Each(_)
        Each(i) == IF i > Len(model.nodes) THEN <<>>
                   ELSE FlattenModel(model.nodes[i]) \o Each(i + 1)
    IN  <<model>> \o (IF IsTranslucentBinder(model) THEN Each(1) ELSE <<>>)

\* flatten_to_documents with the pointers let through whatever the flag says.
FlattenToPages(model, include_pointers) ==
    SelectSeq(FlattenModel(model), LAMBDA m : ~IsTranslucentBinder(m))

\* flatten_to_documents(model, include_pointers)
FlattenToDocuments(model, include_pointers) ==
    SelectSeq(FlattenModel(model),
              LAMBDA m : IsDocument(m)
                         \/ (include_pointers /\ m.kind = "DocumentPointer"))

\* page_ids of SingleHTMLFormatter.build
PageIds(b) ==
    [i \in DOMAIN FlattenToDocuments(b, FALSE) |-> FlattenToDocuments(b, FALSE)[i].id]

\* page_uuids of SingleHTMLFormatter.build, a dict built in the order of
\* page_ids: its keys, and the value a key ends with.
PageUuidKeys(page_ids) == {SplitFirst(page_ids[i], {"@"}) : i \in DOMAIN page_ids}
PageUuids(page_ids, key) ==
    LET last == CHOOSE i \in DOMAIN page_ids :
                    /\ SplitFirst(page_ids[i], {"@"}) = key
                    /\ \A j \in DOMAIN page_ids :
                          SplitFirst(page_ids[j], {"@"}) = key => j <= i
    IN  page_ids[last]

\* The link rewriting loop of SingleHTMLFormatter.build: the href one
\* element ends with.
RewriteHref(href, page_ids) ==
    IF ~StartsWith(href, CONTENTS) THEN href
    ELSE LET link_uuid == SplitFirst(SubSeq(href, 11, Len(href)), {"@", "#"})
         IN IF link_uuid \notin PageUuidKeys(page_ids) THEN href
            ELSE IF "#" \in Range(href)
                 THEN LET fragment ==
                            ReplaceChar(SubSeq(href, FirstIndex(href, {"#"}), Len(href)),
                                        "#", "_")
                      IN <<"#">> \o AUTO_ \o PageUuids(page_ids, link_uuid) \o fragment
                 ELSE <<"#">> \o PAGE_ \o PageUuids(page_ids, link_uuid)

RewriteLinks(elems, page_ids) ==
    [i \in DOMAIN elems |->
        IF elems[i].href = <<>> THEN elems[i]
        ELSE [elems[i] EXCEPT !.href = RewriteHref(@, page_ids)]]

\* TranslucentBinder.get_title_for_node(node)
GetTitleForNode(b, node) == b.title_overrides[ListIndex(b.nodes, node)]

\* model_to_tree with the title override dropped.
TreeTitleOfModel(model, title) == model.title

\* model_to_tree(model, title)['title']
TreeTitle(model, title) ==
    IF title # None /\ title # "" THEN title ELSE model.title

\* tree_to_html(model_to_tree(binder), extensions): html_listify over the
\* children of b, an li per node holding an anchor (a page: its id is in
\* extensions) or a span (a binder), and the sub-list of a binder.
RECURSIVE HtmlListify(_, _)
HtmlListify(b, depth) ==
    LET Item(node) ==
            LET title == TreeTitle(node, GetTitleForNode(b, node))
            IN  << El("li", "", <<>>, <<>>, "", depth, node.obj),
                   IF IsTranslucentBinder(node)
                   THEN El("span", "", <<>>, <<>>, title, depth + 1, node.obj)
                   ELSE El("a", "", <<>>, node.id \o <<".xhtml">>, title,
                           depth + 1, node.obj) >>
                \o (IF IsTranslucentBinder(node)
                    THEN <<El("ol", "", <<>>, <<>>, "", depth + 1, node.obj)>>
                         \o HtmlListify(node, depth + 2)
                    ELSE <<>>)
        RECURSIVE Each(_)
        Each(i) == IF i > Len(b.nodes) THEN <<>>
                   ELSE Item(b.nodes[i]) \o Each(i + 1)
    IN  Each(1)

\* SingleHTMLFormatter.__init__: the body of bytes(HTMLFormatter(binder)),
\* the metadata block and the navigation.
RootBody(b) ==
    MetadataBlock(b, 1)
    \o << El("nav", "", TOC, <<>>, "", 1, b.obj),
          El("ol", "", <<>>, <<>>, "", 2, b.obj) >>
    \o HtmlListify(b, 3)

\* SingleHTMLFormatter.build with no includes: the document after it.
BuildRoot(b, elems) == RewriteLinks(elems \o BuildBinder(b, 1), PageIds(b))

\* ---- the books the formatter is run on ----

MaxElems == 2       \* elements with an id in one page's content
MaxNodes == 2       \* children of the book in the books drawn for their shape

Node(obj, kind, id, title, authors, content, nodes, title_overrides) ==
    [obj |-> obj, kind |-> kind, id |-> id, title |-> title, authors |-> authors,
     content |-> content, nodes |-> nodes, title_overrides |-> title_overrides]

Page(obj, kind, id, title, authors, content) ==
    Node(obj, kind, id, title, authors,
         IF kind = "DocumentPointer" THEN <<>> ELSE content, <<>>, <<>>)

\* The ids pages carry: plain, with an underscore, and starting with page_.
DocIds == {<<"a">>, <<"a", "b">>, <<"a", "_", "b">>, PAGE_ \o <<"a">>}
LocalIds == <<"x", "y">>
Outside == <<"z">>          \* the id of a page that is in no book

\* k elements with the local ids x, y, x, ...
IdRun(k) ==
    [i \in 1..k |-> [tag |-> "p", id |-> <<LocalIds[((i - 1) % 2) + 1]>>,
                     href |-> <<>>, text |-> "para"]]

Anchor(href) == [tag |-> "a", id |-> <<>>, href |-> href, text |-> "link"]

\* The hrefs of a link in a page, to a page whose id is target.
LinkHrefs(target) ==
    { <<"#", "x">>,
      CONTENTS \o target,
      CONTENTS \o target \o <<"@", "1">>,
      CONTENTS \o target \o <<"#", "x">>,
      CONTENTS \o Outside,
      <<"http://example.org/">> }

\* Books drawn for their ids and links: a page with a link (d1), the page
\* the link can point to (d2), side by side, with the first page placed
\* twice, or with the second page in a chapter.
LinkTargets ==
    { Page("d2", kind, id, "Two", authors, IdRun(k)) :
        kind \in {"Document", "CompositeDocument"},
        id \in DocIds, authors \in 0..1, k \in 0..MaxElems }
    \cup { Page("d2", "DocumentPointer", id, "Two", 0, <<>>) : id \in DocIds }

LinkSources(target) ==
    { Page("d1", "Document", id, "One", 0, IdRun(k) \o link) :
        id \in {<<"a">>, <<"a", "b">>},
        k \in 0..MaxElems,
        link \in {<<>>} \cup {<<Anchor(h)>> : h \in LinkHrefs(target)} }

Book(nodes, title_overrides) ==
    Node("book", "Binder", <<"b", "k">>, "Book", 1, <<>>, nodes, title_overrides)

Chapter(obj, nodes, title_overrides) ==
    Node(obj, "TranslucentBinder", <<>>, "Chapter", 0, <<>>, nodes, title_overrides)

LinkShapes(d1, d2) ==
    { Book(<<d1, d2>>, <<None, None>>),
      Book(<<d1, d2, d1>>, <<None, None, None>>),
      Book(<<d1, Chapter("c1", <<d2>>, <<None>>)>>, <<None, None>>) }

\* Books drawn for their shape: up to MaxNodes children of the book, each a
\* page, a composite page, a pointer, a chapter, a unit or a nested Binder,
\* the titles overridden or not.
ShapePage == Page("p1", "Document", <<"a">>, "One", 0, IdRun(MaxElems) \o <<Anchor(<<"#", "x">>)>>)
ShapeComposite == Page("p2", "CompositeDocument", <<"a", "b">>, "Two", 1, IdRun(1))
ShapePointer == Page("p3", "DocumentPointer", <<"c", "@", "1">>, "Three", 0, <<>>)
\* A page with an underscore in its id, a link to an element of its own and
\* a link to a fragment it does not have.
ShapeUnderscore ==
    Page("p4", "Document", <<"a", "_", "b">>, "Four", 0,
         IdRun(1) \o <<Anchor(<<"#", "x">>), Anchor(<<"#", "q">>)>>)

\* The override lists drawn for n children: none set, or the first one set.
OverridesFor(n) ==
    {[i \in 1..n |-> None], [i \in 1..n |-> IF i = 1 THEN "Over" ELSE None]}

ShapeChapters ==
    UNION { {Chapter("c1", nodes, ov) : ov \in OverridesFor(Len(nodes))} :
            nodes \in { <<>>, <<ShapePage>>, <<ShapePage, ShapeComposite>>,
                        <<ShapePage, ShapePage>> } }

ShapeNodes ==
    {ShapePage, ShapeComposite, ShapePointer, ShapeUnderscore}
    \cup ShapeChapters
    \cup { Node("u1", "TranslucentBinder", <<>>, "Unit", 0, <<>>, <<c>>, <<None>>) :
            c \in {Chapter("c2", <<ShapePage>>, <<"Over">>), Chapter("c2", <<>>, <<>>)} }
    \cup { Node("b2", "Binder", <<"b", "2">>, "Part", 1, <<>>, <<ShapeComposite>>, <<None>>) }
    \cup { Node("u2", "TranslucentBinder", <<>>, "Unit", 0, <<>>,
                 <<Node("b3", "Binder", <<"b", "3">>, "Part", 0, <<>>, <<ShapePage>>, <<None>>)>>,
                 <<None>>) }

\* ---- reading the document back (adapt_single_html) ----

(***************************************************************************)
(* adapt_single_html is not among the sources; it is modelled from section *)
(* 4.6 of the specification: the navigation gives the children and their   *)
(* titles level by level, and the body is descended one structural element *)
(* per child.  Of the identifier fix-up the restoring of auto_ identifiers *)
(* is modelled; the suffix given to identifiers that collide in a page and *)
(* the later pass over the fragment links, which change id and href        *)
(* attributes only, are left out.  A node read back is named by the index  *)
(* of its element.                                                         *)
(***************************************************************************)

\* The integers of S in increasing order.
RECURSIVE SortedSeq(_)
SortedSeq(S) ==
    IF S = {} THEN <<>>
    ELSE LET m == CHOOSE x \in S : \A y \in S : x <= y
         IN <<m>> \o SortedSeq(S \ {m})

\* The last element inside the element at i.
Extent(doc, i) ==
    LET later == {k \in (i + 1)..Len(doc) : doc[k].depth <= doc[i].depth}
    IN IF later = {} THEN Len(doc) ELSE (CHOOSE k \in later : \A j \in later : k <= j) - 1

\* The elements at depth d among doc[lo..hi] that satisfy Test, in order.
ElementsAt(doc, lo, hi, d, Test(_)) ==
    SortedSeq({k \in lo..hi : doc[k].depth = d /\ Test(doc[k])})

Roles == {"page", "composite-page", "chapter", "unit", "composite-chapter"}
IsStructural(e) == e.tag = "div" /\ e.type \in Roles
IsListItem(e) == e.tag = "li"

\* An identifier beginning with auto_ restored to its local form.
RestoreId(id) ==
    IF StartsWith(id, AUTO_)
    THEN LET rest == SubSeq(id, Len(AUTO_) + 1, Len(id))
         IN SubSeq(rest, FirstIndex(rest, {"_"}) + 1, Len(rest))
    ELSE id

\* The page a structural element is read back as (a is the index of the
\* element): the metadata block is stripped from the content and the
\* identifiers of the content are restored.
AdaptPage(doc, a) ==
    LET inside == (a + 1)..Extent(doc, a)
        title == doc[CHOOSE k \in inside : doc[k].type = "document-title"
                        /\ \A j \in inside : doc[j].type = "document-title" => k <= j].text
        kept == ElementsAt(doc, a + 1, Extent(doc, a), doc[a].depth + 1,
                           LAMBDA e : e.type # "metadata")
    IN  Node(a,
             IF doc[a].type = "page" THEN "Document" ELSE "CompositeDocument",
             IF StartsWith(doc[a].id, PAGE_)
                THEN SubSeq(doc[a].id, Len(PAGE_) + 1, Len(doc[a].id)) ELSE doc[a].id,
             title,
             Cardinality({k \in inside : doc[k].type = "author"}),
             [i \in DOMAIN kept |->
                [tag |-> doc[kept[i]].tag, id |-> RestoreId(doc[kept[i]].id),
                 href |-> doc[kept[i]].href, text |-> doc[kept[i]].text]],
             <<>>, <<>>)

\* The children read back from the structural elements at depth sd of
\* doc[slo..shi], with the titles of the list items at depth nd of
\* doc[nlo..nhi]: [ok, nodes, title_overrides], ok FALSE where the two do
\* not have the same number of children.
RECURSIVE AdaptTree(_, _, _, _, _, _, _)
AdaptTree(doc, slo, shi, sd, nlo, nhi, nd) ==
    LET structs == ElementsAt(doc, slo, shi, sd, IsStructural)
        items == ElementsAt(doc, nlo, nhi, nd, IsListItem)
        Sub(k) == AdaptTree(doc, structs[k] + 1, Extent(doc, structs[k]), sd + 1,
                            items[k] + 1, Extent(doc, items[k]), nd + 2)
        IsLeaf(k) == doc[structs[k]].type \in {"page", "composite-page"}
        AdaptNode(k) ==
            IF IsLeaf(k) THEN AdaptPage(doc, structs[k])
            ELSE LET a == structs[k]
                     inside == (a + 1)..Extent(doc, a)
                     title == doc[CHOOSE j \in inside : doc[j].type = "document-title"
                                    /\ \A i \in inside : doc[i].type = "document-title" => j <= i].text
                 IN Node(a, "TranslucentBinder", doc[a].id, title, 0, <<>>,
                         Sub(k).nodes, Sub(k).title_overrides)
    IN  IF Len(structs) # Len(items)
        THEN [ok |-> FALSE, nodes |-> <<>>, title_overrides |-> <<>>]
        ELSE [ok |-> \A k \in DOMAIN structs : IsLeaf(k) \/ Sub(k).ok,
              nodes |-> [k \in DOMAIN structs |-> AdaptNode(k)],
              title_overrides |-> [k \in DOMAIN structs |-> doc[items[k] + 1].text]]

\* adapt_single_html(html): the navigation is parsed first, then the body.
AdaptSingleHtml(doc) ==
    LET nav == CHOOSE k \in DOMAIN doc : doc[k].tag = "nav"
        tree == AdaptTree(doc, 1, Len(doc), 1, nav + 1, Extent(doc, nav), 3)
    IN  IF tree.ok
        THEN Node(0, "Binder", <<>>, doc[2].text, 0, <<>>, tree.nodes, tree.title_overrides)
        ELSE [kind |-> "error"]

\* ---- the formatter's operations ----

\* SingleHTMLFormatter(binder), includes=None
InitFmt ==
    /\ \/ \E d2 \in LinkTargets : \E d1 \in LinkSources(d2.id) :
            binder \in LinkShapes(d1, d2)
       \/ \E nodes \in SeqsUpTo(ShapeNodes, MaxNodes) :
            \E ov \in OverridesFor(Len(nodes)) : binder = Book(nodes, ov)
    /\ root = RootBody(binder)
    /\ built = FALSE
    /\ included = FALSE
    /\ out = <<>>
    /\ adapted = <<>>
    /\ ParkRef /\ ParkBinder /\ ParkBuild /\ ParkExt

\* bytes(formatter): SingleHTMLFormatter.__bytes__, with build when the
\* formatter is not built yet.
Bytes ==
    /\ root' = IF built THEN root ELSE BuildRoot(binder, root)
    /\ built' = TRUE
    /\ out' = root'
    /\ UNCHANGED <<binder, included, adapted, notFmt>>

\* reconstitute(BytesIO(bytes(formatter))): the binder read back from the
\* document the formatter returned last.
Reconstitute ==
    /\ out # <<>>
    /\ adapted' = AdaptSingleHtml(out)
    /\ UNCHANGED <<binder, root, built, included, out, notFmt>>

NextFmt == Bytes \/ Reconstitute

SpecFmt == InitFmt /\ [][NextFmt]_vars

----------------------------------------------------------------------------
(* Properties of the formatter's document. *)

\* The uuid a /contents/ link names, and the local id after its '#'.
LinkUuid(href) == SplitFirst(SubSeq(href, 11, Len(href)), {"@", "#"})
LinkFragment(href) == SubSeq(href, FirstIndex(href, {"#"}) + 1, Len(href))

\* The nodes of the book with a page role, and those of them with the id.
PageNodes(b) == {m \in Range(FlattenModel(b)) : ~IsTranslucentBinder(m)}
PagesWithId(b, id) == {m \in PageNodes(b) : m.id = id}

\* The link was rewritten to a local fragment by the pass over all hrefs.
Rewritten(e) == StartsWith(e.orig, CONTENTS) /\ e.href # e.orig /\ Head(e.href) = "#"

\* The page a /contents/ link names is in the book, and so is the element
\* it names inside the page, where it names one.
TargetInBook(b, href) ==
    \E m \in PagesWithId(b, LinkUuid(href)) :
        "#" \in Range(href) =>
            \E i \in DOMAIN m.content : m.content[i].id = LinkFragment(href)

\* C1: in the document bytes(formatter) returns, no two elements carry the
\* same id attribute.
C1_IdsPairwiseDistinct ==
    \A i, j \in DOMAIN out :
        (i # j /\ out[i].id # <<>>) => out[i].id # out[j].id

\* C2: every href the pass over all hrefs rewrote to a local fragment is '#'
\* followed by the id of an element of the document, when the page the link
\* names (and the element it names inside) is part of the book.
C2_RewrittenLinksResolve ==
    \A i \in DOMAIN out :
        (Rewritten(out[i]) /\ TargetInBook(binder, out[i].orig))
            => \E j \in DOMAIN out :
                  out[j].id # <<>> /\ out[i].href = <<"#">> \o out[j].id

\* C3 as stated: a /contents/ link is rewritten exactly when its uuid is the
\* id of a Document, CompositeDocument or DocumentPointer of the book, and
\* every other href is as it was in the source.
C3_RewrittenIffPageRole ==
    \A i \in DOMAIN out :
        out[i].orig # <<>> =>
            IF StartsWith(out[i].orig, CONTENTS)
            THEN Rewritten(out[i]) <=> PagesWithId(binder, LinkUuid(out[i].orig)) # {}
            ELSE out[i].href = out[i].orig

\* The href _generate_ids leaves in a same-page link of the page m.
SamePageHref(m, e) ==
    IF /\ e.tag = "a" /\ Head(e.orig) = "#"
       /\ \E k \in DOMAIN m.content : m.content[k].id = Tail(e.orig)
    THEN <<"#">> \o AUTO_ \o RemoveChar(m.id, "_") \o <<"_">> \o Tail(e.orig)
    ELSE e.orig

\* C3: a /contents/ link is rewritten to a local fragment exactly when its
\* uuid is the id of a Document or CompositeDocument of the book (a link to
\* a DocumentPointer's id is left alone); a link to a page outside the book
\* is left as it was, and so is every other href except a same-page '#id'
\* link to an id of its own page, which becomes '#auto_<page>_<id>'; the
\* formatter is built afterwards.
C3_RewrittenIffDocument ==
    out # <<>> =>
        /\ built
        /\ \A i \in DOMAIN out :
            out[i].orig # <<>> =>
                IF StartsWith(out[i].orig, CONTENTS)
                THEN /\ Rewritten(out[i]) <=>
                            \E m \in PagesWithId(binder, LinkUuid(out[i].orig)) : IsDocument(m)
                     /\ Rewritten(out[i]) \/ out[i].href = out[i].orig
                ELSE \A m \in PageNodes(binder) :
                        (m.obj = out[i].of /\ IsDocument(m))
                            => out[i].href = SamePageHref(m, out[i])

\* The links of a page placed twice, to an element of a page of the book,
\* were rewritten.
C3_Witness ==
    \E i, j \in DOMAIN out :
        /\ i # j /\ Rewritten(out[i]) /\ Rewritten(out[j])
        /\ "#" \in Range(out[i].orig)

\* The nodes under b in pre-order, each with its role, its depth and the
\* title the tree shows for it.
RECURSIVE ShapeOf(_, _)
ShapeOf(b, depth) ==
    LET RECURSIVE Each(_)
        Each(i) ==
            IF i > Len(b.nodes) THEN <<>>
            ELSE LET node == b.nodes[i]
                 IN <<[role |-> GetNodeType(node, GetNodeType(b, None)),
                       depth |-> depth,
                       title |-> IF GetTitleForNode(b, node) # None
                                 THEN GetTitleForNode(b, node) ELSE node.title]>>
                    \o (IF IsTranslucentBinder(node) THEN ShapeOf(node, depth + 1) ELSE <<>>)
                    \o Each(i + 1)
    IN  Each(1)

\* The title override lists of the binders of b in pre-order.
OverridesOf(b) ==
    LET binders == SelectSeq(FlattenModel(b), IsTranslucentBinder)
    IN  [i \in DOMAIN binders |-> binders[i].title_overrides]

\* The page-role nodes of b in pre-order, and the visible content of one.
PagesOf(b) == SelectSeq(FlattenModel(b), LAMBDA m : ~IsTranslucentBinder(m))
VisibleContent(m) ==
    [i \in DOMAIN m.content |-> [tag |-> m.content[i].tag, text |-> m.content[i].text]]

\* Every Document and CompositeDocument of the book comes back with its
\* content, ids and hrefs apart.
ContentKept ==
    /\ Len(PagesOf(adapted)) = Len(PagesOf(binder))
    /\ \A i \in DOMAIN PagesOf(binder) :
          IsDocument(PagesOf(binder)[i])
              => VisibleContent(PagesOf(adapted)[i]) = VisibleContent(PagesOf(binder)[i])

RoleTags == {"page", "composite-page", "chapter", "unit", "book"}

\* The structural elements of the document in document order: role tag,
\* depth and the node each was emitted for.
StructuralElements(doc) ==
    LET divs == SelectSeq(doc, LAMBDA e : e.tag = "div" /\ e.type \in RoleTags)
    IN  [i \in DOMAIN divs |->
            [type |-> divs[i].type, depth |-> divs[i].depth, of |-> divs[i].of]]

Containers == {"Binder", "TranslucentBinder"}

\* The role of a node below the book, composite pages told apart or not.
RoleBelowBook(node, composite) ==
    IF node.kind = "CompositeDocument" THEN composite
    ELSE IF node.kind \in {"Document", "DocumentPointer"} THEN "page"
    ELSE IF \E i \in DOMAIN node.nodes : node.nodes[i].kind \in Containers
         THEN "unit"
    ELSE "chapter"

\* The descendants of a node in pre-order, each with its role and its depth
\* below the book.
RECURSIVE TreeOrder(_, _, _)
TreeOrder(node, depth, composite) ==
    LET RECURSIVE Each(_)
        Each(i) ==
            IF i > Len(node.nodes) THEN <<>>
            ELSE LET child == node.nodes[i] IN
                 <<[type |-> RoleBelowBook(child, composite), depth |-> depth,
                    of |-> child.obj]>>
                 \o (IF child.kind \in Containers
                       THEN TreeOrder(child, depth + 1, composite) ELSE <<>>)
                 \o Each(i + 1)
    IN  Each(1)

DocumentPlacements(doc) ==
    {k \in DOMAIN doc :
        /\ doc[k].tag = "div" /\ doc[k].type \in {"page", "composite-page"}
        /\ \E m \in PageNodes(binder) : m.obj = doc[k].of /\ IsDocument(m)}
PlacedNode(doc, k) == CHOOSE m \in PageNodes(binder) : m.obj = doc[k].of

\* The element emitted for element i of the content of the document placed
\* at k: the content follows the metadata block.
ContentElement(doc, k, i) == doc[k + Len(MetadataBlock(PlacedNode(doc, k), 0)) + i]

WithoutUnderscores(id) == SelectSeq(id, LAMBDA c : c # "_")
AutoId(m, L) == <<"a", "u", "t", "o", "_">> \o WithoutUnderscores(m.id) \o <<"_">> \o L
LocalIdsOf(m) == {m.content[i].id : i \in DOMAIN m.content} \ {<<>>}

\* C14: an element of a page's content with local id L gets the id
\* auto_<page id without its underscores>_L; every link '#L' of the page to
\* such an element is rewritten to '#' and the new id of the element that
\* carried L; a link to a fragment no element of the page carries is left
\* as it was.
C14_GeneratedIds ==
    built =>
        \A k \in DocumentPlacements(root) :
            LET m == PlacedNode(root, k) IN
            \A i \in DOMAIN m.content :
                LET c == m.content[i]
                    e == ContentElement(root, k, i)
                IN  /\ e.tag = c.tag /\ e.of = m.obj
                    /\ c.id # <<>> => e.id = AutoId(m, c.id)
                    /\ (c.tag = "a" /\ c.href # <<>> /\ Head(c.href) = "#") =>
                         IF Tail(c.href) \in LocalIdsOf(m)
                           THEN /\ e.href = <<"#">> \o AutoId(m, Tail(c.href))
                                /\ \E j \in DOMAIN m.content :
                                      /\ m.content[j].id = Tail(c.href)
                                      /\ ContentElement(root, k, j).id = Tail(e.href)
                           ELSE e.href = c.href

\* A built page with an underscore in its id whose link to its own element
\* and whose link to a fragment it lacks have both gone through.
C14_Witness ==
    /\ built
    /\ \E k \in DocumentPlacements(root) :
          LET m == PlacedNode(root, k) IN
          /\ "_" \in Range(m.id)
          /\ \E i, j \in DOMAIN m.content :
                /\ m.content[i].href = <<"#", "x">>
                /\ ContentElement(root, k, i).href # <<"#", "x">>
                /\ m.content[j].href = <<"#", "q">>
                /\ ContentElement(root, k, j).href = <<"#", "q">>

----------------------------------------------------------------------------
(***************************************************************************)
(* SingleHTMLFormatter.build with includes: formatters.py 255-285          *)
(*                                                                         *)
(* The caller of bytes(formatter) goes through build one statement at a    *)
(* time; the calls it submits to the executor are run by the pool's worker *)
(* threads, at most `threads` of them at once.  The executor class         *)
(* (.utils.ThreadPoolExecutor) is not among the sources: its pool and the  *)
(* join at the end of the with block are modelled from section 5 of the    *)
(* specification.                                                          *)
(***************************************************************************)

MaxThreads == 2     \* the worker counts drawn for threads
MaxIncludes == 2    \* the pairs in includes

Matches == {"a", "p"}             \* '//xhtml:a', '//xhtml:p'
Procs == {"annotate", "raise"}    \* a mutator that sets an href, one that raises

BuildPage == Page("d1", "Document", <<"a">>, "One", 0,
                  IdRun(1) \o <<Anchor(CONTENTS \o <<"a", "b">>)>>)
BuildBooks ==
    { Book(<<BuildPage>>, <<None>>),
      Book(<<BuildPage, Page("d2", "Document", <<"a", "b">>, "Two", 0, IdRun(1))>>,
           <<None, None>>) }

\* self.xpath(match)
Xpath(elems, match) == SortedSeq({k \in DOMAIN elems : elems[k].tag = match})

\* list(page_uuids.keys()): the keys in the order they were first inserted.
PageUuidKeyList(page_ids) ==
    LET keys == [i \in DOMAIN page_ids |-> SplitFirst(page_ids[i], {"@"})]
        firsts == {i \in DOMAIN keys : \A j \in 1..(i - 1) : keys[j] # keys[i]}
    IN  [i \in DOMAIN SortedSeq(firsts) |-> keys[SortedSeq(firsts)[i]]]

\* What proc(elem, page_uuids) does to the document when it returns: the
\* mutator drawn links its element to the first page of the book.
Annotate(elems, k, page_uuids) ==
    [elems EXCEPT ![k].href = CONTENTS \o Head(page_uuids)]

Finished(st) == st \in {"returned", "raised"}

\* ThreadPoolExecutor.__exit__: the calls submitted to this executor are over.
PoolDone(ts, pair) ==
    \A t \in DOMAIN ts : ts[t].pair = pair => Finished(ts[t].st)

\* The executor used without the with statement: nothing is waited for.
WithoutWith(ts, pair) == TRUE

\* Leaving `with ThreadPoolExecutor(...) as e:` goes through its __exit__.
WithExit(ts, pair) == PoolDone(ts, pair)

\* SingleHTMLFormatter(binder, includes, threads)
InitBuild ==
    /\ binder \in BuildBooks
    /\ root = RootBody(binder)
    /\ built = FALSE
    /\ included = FALSE
    /\ out = <<>>
    /\ adapted = <<>>
    /\ includes \in SeqsUpTo([match : Matches, proc : Procs], MaxIncludes)
    /\ threads \in 1..MaxThreads
    /\ pc = "idle"
    /\ inc = 0
    /\ pending = <<>>
    /\ tasks = <<>>
    /\ ParkRef /\ ParkBinder /\ ParkExt

\* __bytes__ building whether the formatter is built or not.
BytesCallAlwaysBuilds ==
    /\ pc = "idle"
    /\ pc' = "assemble"
    /\ UNCHANGED <<binder, root, built, included, out, includes, threads, inc,
                   pending, tasks, notBuild>>
\* bytes(formatter) is called: __bytes__ builds when not built yet.
BytesCall ==
    /\ pc = "idle"
    /\ pc' = IF built THEN "return" ELSE "assemble"
    /\ UNCHANGED <<binder, root, built, included, out, includes, threads, inc,
                   pending, tasks, notBuild>>

\* build: self._build_binder(self.binder, self.body), page_ids, page_uuids
Assemble ==
    /\ pc = "assemble"
    /\ root' = root \o BuildBinder(binder, 1)
    /\ inc' = 1
    /\ pc' = IF ~included /\ includes # <<>> THEN "includes" ELSE "rewrite"
    /\ UNCHANGED <<binder, built, included, out, includes, threads, pending,
                   tasks, notBuild>>

\* build: `with ThreadPoolExecutor(max_workers=self.threads) as e:` and
\* self.xpath(match) for the next pair of includes
EnterPool ==
    /\ pc = "includes" /\ inc <= Len(includes)
    /\ pending' = Xpath(root, includes[inc].match)
    /\ pc' = "submit"
    /\ UNCHANGED <<binder, root, built, included, out, includes, threads, inc,
                   tasks, notBuild>>

\* build: e.submit(proc, elem, list(page_uuids.keys())); what submit returns
\* is dropped.
Submit ==
    /\ pc = "submit" /\ pending # <<>>
    /\ tasks' = tasks \o <<[pair |-> inc, elem |-> Head(pending),
                            proc |-> includes[inc].proc, st |-> "queued"]>>
    /\ pending' = Tail(pending)
    /\ UNCHANGED <<binder, root, built, included, out, includes, threads, pc,
                   inc, notBuild>>

\* build: the end of the with block
ExitPool ==
    /\ pc = "submit" /\ pending = <<>>
    /\ WithExit(tasks, inc)
    /\ inc' = inc + 1
    /\ pc' = "includes"
    /\ UNCHANGED <<binder, root, built, included, out, includes, threads,
                   pending, tasks, notBuild>>

\* build: self.included = True after the last pair
EndIncludes ==
    /\ pc = "includes" /\ inc > Len(includes)
    /\ included' = TRUE
    /\ pc' = "rewrite"
    /\ UNCHANGED <<binder, root, built, out, includes, threads, inc, pending,
                   tasks, notBuild>>

\* A worker thread of the pool takes a call that is waiting.
TaskStart(t) ==
    /\ tasks[t].st = "queued"
    /\ Cardinality({u \in DOMAIN tasks : tasks[u].st = "running"}) < threads
    /\ tasks' = [tasks EXCEPT ![t].st = "running"]
    /\ UNCHANGED <<binder, root, built, included, out, includes, threads, pc,
                   inc, pending, notBuild>>

\* proc(elem, page_uuids) returns in its worker thread.
TaskReturn(t) ==
    /\ tasks[t].st = "running" /\ tasks[t].proc = "annotate"
    /\ root' = Annotate(root, tasks[t].elem, PageUuidKeyList(PageIds(binder)))
    /\ tasks' = [tasks EXCEPT ![t].st = "returned"]
    /\ UNCHANGED <<binder, built, included, out, includes, threads, pc, inc,
                   pending, notBuild>>

\* proc(elem, page_uuids) raises in its worker thread: the exception stays
\* with the call's future, which build has dropped.
TaskRaise(t) ==
    /\ tasks[t].st = "running" /\ tasks[t].proc = "raise"
    /\ tasks' = [tasks EXCEPT ![t].st = "raised"]
    /\ UNCHANGED <<binder, root, built, included, out, includes, threads, pc,
                   inc, pending, notBuild>>

\* build: the loop over //*[@href] and self.built = True
RewriteAll ==
    /\ pc = "rewrite"
    /\ root' = RewriteLinks(root, PageIds(binder))
    /\ built' = TRUE
    /\ pc' = "return"
    /\ UNCHANGED <<binder, included, out, includes, threads, inc, pending,
                   tasks, notBuild>>

\* __bytes__: return etree.tostring(self.root)
Return ==
    /\ pc = "return"
    /\ out' = root
    /\ pc' = "idle"
    /\ UNCHANGED <<binder, root, built, included, includes, threads, inc,
                   pending, tasks, notBuild>>

NextBuild ==
    \/ BytesCall \/ Assemble \/ EnterPool \/ Submit \/ ExitPool \/ EndIncludes
    \/ RewriteAll \/ Return
    \/ \E t \in DOMAIN tasks : TaskStart(t)
    \/ \E t \in DOMAIN tasks : TaskReturn(t)
    \/ \E t \in DOMAIN tasks : TaskRaise(t)

SpecBuild == InitBuild /\ [][NextBuild]_vars

\* The whole tree is assembled: the elements of the book are under body.
Assembled == root # RootBody(binder) /\ Len(root) = Len(RootBody(binder) \o BuildBinder(binder, 1))

\* The link rewriting pass is about to read its first href, or is over.
AtOrPastRewrite == pc = "rewrite" \/ built

\* C5: no call of a mutator is started (nor submitted) before the whole tree
\* is assembled, and when the link rewriting pass starts, a call has been
\* submitted for every element every pair of includes matches and every one
\* of them has returned or raised, whatever the worker count and the
\* interleaving of the workers.
C5_JoinBarrier ==
    /\ tasks # <<>> => Assembled
    /\ AtOrPastRewrite =>
          /\ \A t \in DOMAIN tasks : Finished(tasks[t].st)
          /\ \A i \in DOMAIN includes :
                Cardinality({t \in DOMAIN tasks : tasks[t].pair = i})
                    = Len(Xpath(root, includes[i].match))

\* The link rewriting pass is over after two pairs of includes were run by
\* two workers, calls that returned and calls that raised among them.
C5_Witness ==
    /\ built /\ threads = 2 /\ Len(includes) = 2
    /\ \E t, u \in DOMAIN tasks :
          /\ tasks[t].pair = 1 /\ tasks[u].pair = 2
          /\ tasks[t].st = "returned" /\ tasks[u].st = "raised"

\* C6: once a mutator called through includes has raised, the link
\* rewriting pass does not run, the formatter is not marked built and
\* bytes(formatter) returns no document.
C6_RaisingMutatorAborts ==
    (\E t \in DOMAIN tasks : tasks[t].st = "raised")
        => pc \notin {"rewrite", "return"} /\ ~built /\ out = <<>>

----------------------------------------------------------------------------
(***************************************************************************)
(* Package: epub.py                                                        *)
(*                                                                         *)
(* An Item is an object with a name and the is_navigation flag; Item       *)
(* defines no __eq__, so two entries of a list are equal exactly when they *)
(* are the same object.  An item is the record [obj, is_navigation]: obj   *)
(* is the object's identity, and one object has one flag.                  *)
(***************************************************************************)

MaxItems == 3       \* items in the list handed to Package

\* The Item objects a list is drawn from, each with its flag
\* (Item.__init__: bool(is_navigation)).
Items == {[obj |-> "i1", is_navigation |-> TRUE],
          [obj |-> "i2", is_navigation |-> TRUE],
          [obj |-> "i3", is_navigation |-> FALSE],
          [obj |-> "i4", is_navigation |-> FALSE]}

\* navigation_items = [i for i in self._items if i.is_navigation]
NavigationItems(items) == SelectSeq(items, LAMBDA i : i.is_navigation)

\* list.index(x): always the first position.
ItemsIndexFirst(items, x) == 1
\* list.index(x): the first position holding x.
ItemsIndex(items, x) ==
    CHOOSE k \in DOMAIN items :
        /\ items[k] = x
        /\ \A j \in 1..(k - 1) : items[j] # x

InitPkg ==
    /\ p_items \in SeqsUpTo(Items, MaxItems)
    /\ p_pkg = <<>>
    /\ p_ret = <<>>
    /\ ParkCore /\ ParkIdent /\ ParkPers /\ ParkMake /\ ParkAdapt /\ ParkMeta /\ ParkOpf /\ ParkFlat /\ ParkTree /\ ParkCollate /\ ParkEx /\ ParkNum /\ ParkPub

\* Package.__init__(name, items): the caller holds the object only when
\* the constructor returns.
PackageInit ==
    /\ p_pkg = <<>> /\ p_ret = <<>>
    /\ LET navigation_items == NavigationItems(p_items) IN
         IF Len(navigation_items) = 0
           THEN p_ret' = <<"MissingNavigationError">> /\ p_pkg' = p_pkg
         ELSE IF Len(navigation_items) > 1
           THEN p_ret' = <<"AdditionalNavigationError">> /\ p_pkg' = p_pkg
         ELSE /\ p_pkg' = [_items |-> p_items,
                           _navigation_item_index |->
                               ItemsIndex(p_items, navigation_items[1])]
              /\ p_ret' = <<"Package">>
    /\ UNCHANGED <<p_items, notPkg>>

\* Package.navigation
Navigation ==
    /\ p_pkg # <<>>
    /\ p_ret' = <<"item", p_pkg._items[p_pkg._navigation_item_index]>>
    /\ UNCHANGED <<p_items, p_pkg, notPkg>>

\* len(package): Package.__len__
PackageLen ==
    /\ p_pkg # <<>>
    /\ p_ret' = <<"len", Len(p_pkg._items)>>
    /\ UNCHANGED <<p_items, p_pkg, notPkg>>

NextPkg == PackageInit \/ Navigation \/ PackageLen

SpecPackage == InitPkg /\ [][NextPkg]_vars

----------------------------------------------------------------------------
(* Properties of Package *)

Flagged(items) == {k \in DOMAIN items : items[k].is_navigation}

\* C11: a Package built from a list with no navigation-flagged item raises
\* MissingNavigationError, from a list with two or more raises
\* AdditionalNavigationError, and in both cases the caller obtains no
\* Package; from a list with exactly one the constructor succeeds, and
\* Package.navigation then returns that flagged item wherever it sits.
C11_OneNavigationItem ==
    [][/\ PackageInit =>
            /\ Cardinality(Flagged(p_items)) = 0 =>
                   p_ret' = <<"MissingNavigationError">> /\ p_pkg' = <<>>
            /\ Cardinality(Flagged(p_items)) > 1 =>
                   p_ret' = <<"AdditionalNavigationError">> /\ p_pkg' = <<>>
            /\ Cardinality(Flagged(p_items)) = 1 =>
                   p_ret' = <<"Package">> /\ p_pkg' # <<>>
       /\ Navigation =>
            /\ Cardinality(Flagged(p_items)) = 1
            /\ \E k \in Flagged(p_items) : p_ret' = <<"item", p_items[k]>>]_vars

\* The one flagged item sits last in a list of three and navigation
\* returned it.
C11_Witness ==
    /\ Len(p_items) = 3
    /\ Flagged(p_items) = {3}
    /\ p_pkg # <<>>
    /\ p_ret = <<"item", p_items[3]>>

----------------------------------------------------------------------------
(***************************************************************************)
(* id, ident_hash and metadata['version']: models.py                       *)
(*                                                                         *)
(* The values here are taken apart at '@', so a string is a sequence of    *)
(* one-character strings, '' is <<>>, and None is the one-token sequence   *)
(* NoneStr, which no string equals.  TRANSLUCENT_BINDER_ID is never taken  *)
(* apart and is one token.                                                 *)
(***************************************************************************)

MaxIdLen == 3       \* characters of a string assigned to id, ident_hash or the version

NoneStr == <<None>>
TRANSLUCENT_BINDER_ID == <<"subcol">>

IdChars == {"a", "@"}
IdStrings == SeqsUpTo(IdChars, MaxIdLen) \cup {TRANSLUCENT_BINDER_ID}
IdValues == IdStrings \cup {NoneStr}

\* What is assigned to metadata['version'] directly.
Versions == {NoneStr, <<>>, <<"a">>, <<"a", "@">>}

IdentClasses == {"Binder", "Document", "TranslucentBinder"}

\* str.split(sep) splitting at the first sep only.
SplitOnce(s, sep) ==
    IF \E k \in DOMAIN s : s[k] = sep
      THEN LET k == CHOOSE i \in DOMAIN s :
                        s[i] = sep /\ \A j \in 1..(i - 1) : s[j] # sep
           IN  <<SubSeq(s, 1, k - 1), SubSeq(s, k + 1, Len(s))>>
      ELSE <<s>>
\* str.split(sep): the parts between every two sep.
RECURSIVE Split(_, _)
Split(s, sep) ==
    IF \E k \in DOMAIN s : s[k] = sep
      THEN LET k == CHOOSE i \in DOMAIN s :
                        s[i] = sep /\ \A j \in 1..(i - 1) : s[j] # sep
           IN  <<SubSeq(s, 1, k - 1)>> \o Split(SubSeq(s, k + 1, Len(s)), sep)
      ELSE <<s>>

\* sep.join(args)
RECURSIVE Join(_, _)
Join(args, sep) ==
    IF Len(args) = 0 THEN <<>>
    ELSE IF Len(args) = 1 THEN args[1]
    ELSE args[1] \o <<sep>> \o Join(Tail(args), sep)

\* The ident_hash getter with the version left out.
IdentHashOfId(cls, id, version) ==
    IF cls = "TranslucentBinder" THEN NoneStr
    ELSE IF id = NoneStr \/ (cls = "Binder" /\ id = TRANSLUCENT_BINDER_ID)
      THEN NoneStr
    ELSE id
\* TranslucentBinder.ident_hash, Binder.ident_hash, Document.ident_hash
IdentHash(cls, id, version) ==
    IF cls = "TranslucentBinder" THEN NoneStr
    ELSE IF id = NoneStr \/ (cls = "Binder" /\ id = TRANSLUCENT_BINDER_ID)
      THEN NoneStr
    ELSE Join(<<id>> \o (IF version # NoneStr THEN <<version>> ELSE <<>>), "@")

\* A node after construction with id None and no version in its metadata
\* (TranslucentBinder has the class attribute id = None).
InitIdent ==
    /\ i_cls \in IdentClasses
    /\ i_id = NoneStr
    /\ i_version = NoneStr
    /\ i_ret = <<>>
    /\ ParkCore /\ ParkPkg /\ ParkPers /\ ParkMake /\ ParkAdapt /\ ParkMeta /\ ParkOpf /\ ParkFlat /\ ParkTree /\ ParkCollate /\ ParkEx /\ ParkNum /\ ParkPub

\* node.id = value: the id setter of Binder and Document; a plain attribute
\* of TranslucentBinder.
IdSet(value) ==
    /\ i_cls # ""
    /\ IF i_cls = "TranslucentBinder"
         THEN i_id' = value /\ i_version' = i_version /\ i_ret' = <<"ok">>
       ELSE IF value # NoneStr /\ value # <<>> /\ "@" \in Range(value)
         THEN LET parts == Split(value, "@") IN
              IF Len(parts) = 2
                THEN /\ i_id' = parts[1] /\ i_version' = parts[2]
                     /\ i_ret' = <<"ok">>
                ELSE /\ i_ret' = <<"ValueError", "too many values to unpack">>
                     /\ UNCHANGED <<i_id, i_version>>
       ELSE i_id' = value /\ i_version' = i_version /\ i_ret' = <<"ok">>
    /\ UNCHANGED <<i_cls, notIdent>>

\* node.ident_hash = value: the ident_hash setter of Binder and Document;
\* the property of TranslucentBinder has no setter.
IdentHashSet(value) ==
    /\ i_cls # ""
    /\ IF i_cls = "TranslucentBinder" \/ value = NoneStr
         THEN i_ret' = <<"AttributeError">> /\ UNCHANGED <<i_id, i_version>>
       ELSE LET parts == Split(value, "@") IN
            IF Len(parts) = 2
              THEN /\ i_id' = parts[1] /\ i_version' = parts[2]
                   /\ i_ret' = <<"ok">>
              ELSE /\ i_ret' = <<"ValueError", "ident_hash requires a version">>
                   /\ UNCHANGED <<i_id, i_version>>
    /\ UNCHANGED <<i_cls, notIdent>>

\* node.metadata['version'] = value
VersionSet(value) ==
    /\ i_cls # ""
    /\ i_version' = value
    /\ i_ret' = <<"ok">>
    /\ UNCHANGED <<i_cls, i_id, notIdent>>

\* node.ident_hash
IdentHashGet ==
    /\ i_cls # ""
    /\ i_ret' = <<"ident_hash", IdentHash(i_cls, i_id, i_version)>>
    /\ UNCHANGED <<i_cls, i_id, i_version, notIdent>>

NextIdent ==
    \/ \E value \in IdValues : IdSet(value)
    \/ \E value \in IdValues : IdentHashSet(value)
    \/ \E value \in Versions : VersionSet(value)
    \/ IdentHashGet

SpecIdent == InitIdent /\ [][NextIdent]_vars

----------------------------------------------------------------------------
(* Properties of id, ident_hash and the version *)

Persistent == i_cls \in {"Binder", "Document"}

Ats(value) == {k \in DOMAIN value : value[k] = "@"}
FirstAt(value) == CHOOSE k \in Ats(value) : \A j \in Ats(value) : k <= j
BeforeAt(value) == SubSeq(value, 1, FirstAt(value) - 1)
AfterAt(value) == SubSeq(value, FirstAt(value) + 1, Len(value))

\* C12: assigning to the id of a Binder or Document a string that contains
\* '@' splits it once at the first '@' into id and version; a string with
\* nothing before or nothing after the '@' is rejected as an error, and
\* then id and version keep their previous values.
C12_IdSplitsAtFirstAt ==
    [][\A value \in IdStrings :
          (IdSet(value) /\ Persistent /\ Ats(value) # {}) =>
              IF BeforeAt(value) # <<>> /\ AfterAt(value) # <<>>
                THEN /\ i_id' = BeforeAt(value)
                     /\ i_version' = AfterAt(value)
                     /\ i_ret' = <<"ok">>
                ELSE /\ i_ret'[1] \in {"ValueError", "AttributeError"}
                     /\ UNCHANGED <<i_id, i_version>>]_vars

\* What ident_hash reads as for the node as it is.
Addressable ==
    /\ Persistent
    /\ i_id # NoneStr
    /\ ~(i_cls = "Binder" /\ i_id = TRANSLUCENT_BINDER_ID)
IdAtVersion ==
    IF i_version = NoneStr THEN i_id ELSE i_id \o <<"@">> \o i_version

\* C18 (as stated): for a Binder or Document, after any sequence of
\* assignments to id, ident_hash and the version, ident_hash reads as id
\* when no version is set and as id + '@' + version otherwise; for a
\* TranslucentBinder it always reads as None.
C18_IdentHashIsIdAtVersion ==
    (Len(i_ret) = 2 /\ i_ret[1] = "ident_hash") =>
        IF Persistent THEN i_ret[2] = IdAtVersion ELSE i_ret[2] = NoneStr

\* C18 (amended): ident_hash reads as None for a TranslucentBinder, for a
\* node whose id is None and for a Binder whose id is TRANSLUCENT_BINDER_ID;
\* for every other Binder or Document it reads as id when no version is set
\* and as id + '@' + version otherwise.
C18_IdentHashOfAddressable ==
    (Len(i_ret) = 2 /\ i_ret[1] = "ident_hash") =>
        IF Addressable THEN i_ret[2] = IdAtVersion ELSE i_ret[2] = NoneStr

\* A Binder whose id and version came out of one assignment reads as
\* id + '@' + version.
C18_Witness ==
    /\ i_cls = "Binder"
    /\ i_id = <<"a">> /\ i_version = <<"a", "a">>
    /\ i_ret = <<"ident_hash", <<"a", "@", "a", "a">>>>

----------------------------------------------------------------------------
(***************************************************************************)
(* DocumentMetadataParser._parse_person_info: html_parsers.py              *)
(*                                                                         *)
(* A person element is [name, elm_id, refinement]: elm_id is its id        *)
(* attribute (NoneStr without one) and refinement the content of the first *)
(* meta with property display-seq that refines '#' + elm_id (NoneStr when  *)
(* there is none).  The sort keys are None, the integer 0 and the content  *)
(* strings; how values of different types compare depends on the Python    *)
(* the library runs on, which supports both 2 and 3.                       *)
(***************************************************************************)

MaxPersons == 3     \* person elements of one list

DisplaySeqs == {<<"1">>, <<"2">>, <<"1", "0">>}

\* The person elements that can stand at position i of the document.
PersonElms(i) ==
    {[name |-> i, elm_id |-> NoneStr, refinement |-> NoneStr],
     [name |-> i, elm_id |-> <<"i", "d">>, refinement |-> NoneStr]}
    \cup {[name |-> i, elm_id |-> <<"i", "d">>, refinement |-> r] : r \in DisplaySeqs}

DecimalDigits == <<"0", "1", "2", "3", "4", "5", "6", "7", "8", "9">>
DigitOrd(c) == CHOOSE i \in DOMAIN DecimalDigits : DecimalDigits[i] = c

\* a < b for two strings: by code point, character by character.
RECURSIVE StrLess(_, _)
StrLess(a, b) ==
    IF b = <<>> THEN FALSE
    ELSE IF a = <<>> THEN TRUE
    ELSE IF Head(a) # Head(b) THEN DigitOrd(Head(a)) < DigitOrd(Head(b))
    ELSE StrLess(Tail(a), Tail(b))

\* order of _parse_person_info for one element
OrderOf(elm) ==
    IF elm.elm_id = NoneStr THEN [t |-> "NoneType", v |-> <<>>]
    ELSE IF elm.refinement = NoneStr THEN [t |-> "int", v |-> <<"0">>]
    ELSE [t |-> "str", v |-> elm.refinement]

\* x < y in Python 2, where values of different types are ordered: None
\* first, then the numbers, then the strings.
TypeRank(t) == IF t = "NoneType" THEN 0 ELSE IF t = "int" THEN 1 ELSE 2
KeyLess2(x, y) ==
    IF x.t # y.t THEN TypeRank(x.t) < TypeRank(y.t)
    ELSE x.t = "str" /\ StrLess(x.v, y.v)

\* Whether sorted raises TypeError in Python 3: with two keys or more it
\* compares every key with another one, and '<' is not supported between
\* two None nor between values of different types.
Unorderable3(keys) ==
    /\ Len(keys) >= 2
    /\ \/ \E i \in DOMAIN keys : keys[i].t = "NoneType"
       \/ \E i, j \in DOMAIN keys : keys[i].t # keys[j].t

\* sorted(unordered, key=lambda x: x[0]): the positions of the input in
\* the order of the output; the sort is stable.
Sorted(keys) ==
    LET Before(i, j) == KeyLess2(keys[i], keys[j])
                        \/ (~KeyLess2(keys[j], keys[i]) /\ i < j)
        Rank(i) == Cardinality({j \in DOMAIN keys : j # i /\ Before(j, i)}) + 1
    IN  [r \in DOMAIN keys |-> CHOOSE i \in DOMAIN keys : Rank(i) = r]

InitPers ==
    /\ \E n \in 0..MaxPersons : ps_elms \in [1..n -> UNION {PersonElms(i) : i \in 1..n}]
    /\ \A i \in DOMAIN ps_elms : ps_elms[i].name = i
    /\ ps_py \in {2, 3}
    /\ ps_ret = <<>>
    /\ ParkCore /\ ParkPkg /\ ParkIdent /\ ParkMake /\ ParkAdapt /\ ParkMeta /\ ParkOpf /\ ParkFlat /\ ParkTree /\ ParkCollate /\ ParkEx /\ ParkNum /\ ParkPub

\* DocumentMetadataParser._parse_person_info(xpath)
ParsePersonInfo ==
    /\ ps_py # 0 /\ ps_ret = <<>>
    /\ LET unordered == [i \in DOMAIN ps_elms |-> OrderOf(ps_elms[i])] IN
         IF ps_py = 3 /\ Unorderable3(unordered)
           THEN ps_ret' = <<"TypeError">>
           ELSE ps_ret' = <<"values",
                            [r \in DOMAIN ps_elms |-> ps_elms[Sorted(unordered)[r]].name]>>
    /\ UNCHANGED <<ps_elms, ps_py, notPers>>

NextPers == ParsePersonInfo

SpecPersons == InitPers /\ [][NextPers]_vars

----------------------------------------------------------------------------
(* Properties of the person lists *)

\* The number a display-seq content stands for.
RECURSIVE SeqValue(_)
SeqValue(digits) ==
    IF digits = <<>> THEN 0
    ELSE 10 * SeqValue(SubSeq(digits, 1, Len(digits) - 1))
         + (DigitOrd(digits[Len(digits)]) - 1)

Refined(i) == ps_elms[i].elm_id # NoneStr /\ ps_elms[i].refinement # NoneStr

\* Person i comes before person j in the list the specification describes:
\* refined ones ascending by their display-sequence value, the ones
\* without a refinement after all of them, ties in document order.
ComesBefore(i, j) ==
    IF Refined(i) /\ Refined(j)
      THEN \/ SeqValue(ps_elms[i].refinement) < SeqValue(ps_elms[j].refinement)
           \/ (SeqValue(ps_elms[i].refinement) = SeqValue(ps_elms[j].refinement) /\ i < j)
    ELSE IF Refined(i) # Refined(j) THEN Refined(i)
    ELSE i < j

\* C15: the extracted person list is the stable ascending sort of the
\* person elements by display-sequence value, the persons without a
\* refinement after all refined ones in document order, and the extraction
\* never fails because a refinement is missing.
C15_PersonsSortedByDisplaySeq ==
    ps_ret # <<>> =>
        /\ ps_ret[1] = "values"
        /\ \A r, q \in DOMAIN ps_ret[2] :
              r < q => ComesBefore(ps_ret[2][r], ps_ret[2][q])

----------------------------------------------------------------------------
(***************************************************************************)
(* _make_package: adapters.py                                              *)
(*                                                                         *)
(* A node is [obj, kind, nodes, resources, inline]: resources are the ids  *)
(* of node.resources and inline the data of the node's references of type  *)
(* inline (data: URIs), in document order.  An item of the package is      *)
(* [name, is_navigation, of]: of tells a page item ("page"), a resource    *)
(* item ("resource") and the navigation item ("nav") apart.  References of *)
(* type internal are bound and add no item.                                *)
(***************************************************************************)

MaxMkNodes == 2     \* children of the binder handed to _make_package

MkNode(obj, kind, nodes, resources, inline) ==
    [obj |-> obj, kind |-> kind, nodes |-> nodes, resources |-> resources,
     inline |-> inline]

\* The documents: with no resource, one, or two, with an inline image or not.
MkDocuments ==
    { MkNode(obj, "Document", <<>>, res, inl) :
        obj \in {"d1", "d2"},
        res \in {<<>>, <<"r1">>, <<"r1", "r2">>},
        inl \in {<<>>, <<"data1">>} }
MkNodes ==
    MkDocuments
    \cup { MkNode("c1", "CompositeDocument", <<>>, <<"r1">>, <<>>),
           MkNode("p1", "DocumentPointer", <<>>, <<>>, <<>>),
           MkNode("t1", "TranslucentBinder",
                  <<MkNode("d3", "Document", <<>>, <<"r2">>, <<>>)>>, <<>>, <<>>) }

\* Resource.filename of the resource _make_resource_from_inline makes: the
\* hash of the data and the extension of its media type.
InlineResourceId(data) == IF data = "data1" THEN "hash1.png" ELSE "hash2.png"

MkItem(name, is_navigation, of) ==
    [name |-> name, is_navigation |-> is_navigation, of |-> of]

\* The items one model of flatten_model(binder) adds.
ModelItems(model) ==
    [i \in DOMAIN model.resources |-> MkItem(model.resources[i], FALSE, "resource")]
    \o (IF IsTranslucentBinder(model) THEN <<>>
        ELSE IF model.kind = "DocumentPointer"
          THEN <<MkItem(model.obj, FALSE, "page")>>
        ELSE [i \in DOMAIN model.inline |->
                 MkItem(InlineResourceId(model.inline[i]), FALSE, "resource")]
             \o <<MkItem(model.obj, FALSE, "page")>>)

\* The item list _make_package builds.
MakeItems(b) ==
    LET models == FlattenModel(b)
        RECURSIVE Each(_)
        Each(i) == IF i > Len(models) THEN <<>>
                   ELSE ModelItems(models[i]) \o Each(i + 1)
    IN  <<MkItem(b.obj, TRUE, "nav")>> \o Each(1)

\* One object is one node: the same obj never stands for two records.
OneNodePerObj(b) ==
    \A m, n \in Range(FlattenModel(b)) : m.obj = n.obj => m = n

InitMake ==
    /\ \E nodes \in SeqsUpTo(MkNodes, MaxMkNodes) :
       \E res \in {<<>>, <<"r1">>} :
          mk_binder = MkNode("book", "Binder", nodes, res, <<>>)
    /\ OneNodePerObj(mk_binder)
    /\ mk_package = <<>>
    /\ ParkCore /\ ParkPkg /\ ParkIdent /\ ParkPers /\ ParkAdapt /\ ParkMeta /\ ParkOpf /\ ParkFlat /\ ParkTree /\ ParkCollate /\ ParkEx /\ ParkNum /\ ParkPub

\* _make_package(binder): Package(package_name, items, binder.metadata)
\* succeeds when the list has one navigation item.
MakePackage ==
    /\ mk_binder # <<>> /\ mk_package = <<>>
    /\ LET items == MakeItems(mk_binder) IN
         /\ Len(NavigationItems(items)) = 1
         /\ mk_package' = items
    /\ UNCHANGED <<mk_binder, notMake>>

NextMake == MakePackage

SpecMake == InitMake /\ [][NextMake]_vars

----------------------------------------------------------------------------
(* Properties of the package made from a binder *)

MkPages(b) == {m \in Range(FlattenModel(b)) : ~IsTranslucentBinder(m)}
MkResources(b) ==
    UNION {Range(m.resources) \cup {InlineResourceId(d) : d \in Range(m.inline)} :
            m \in Range(FlattenModel(b))}
ItemsOf(items, of, name) ==
    {k \in DOMAIN items : items[k].of = of /\ items[k].name = name}

\* C16: the package made from a binder holds exactly one navigation item,
\* exactly one item for every Document, CompositeDocument and
\* DocumentPointer of the tree, and exactly one item for every distinct
\* resource: a resource shared by several nodes gives a single item.
C16_OneItemEach ==
    mk_package # <<>> =>
        /\ Cardinality({k \in DOMAIN mk_package : mk_package[k].is_navigation}) = 1
        /\ \A m \in MkPages(mk_binder) :
              Cardinality(ItemsOf(mk_package, "page", m.obj)) = 1
        /\ \A r \in MkResources(mk_binder) :
              Cardinality(ItemsOf(mk_package, "resource", r)) = 1
        /\ \A k \in DOMAIN mk_package :
              \/ mk_package[k].is_navigation
              \/ \E m \in MkPages(mk_binder) : k \in ItemsOf(mk_package, "page", m.obj)
              \/ \E r \in MkResources(mk_binder) : k \in ItemsOf(mk_package, "resource", r)

----------------------------------------------------------------------------
(***************************************************************************)
(* adapt_package and _node_to_model: adapters.py                           *)
(*                                                                         *)
(* An entry of the navigation tree is [id, title] for a leaf and           *)
(* [id, title, contents] for a sub-tree, as parse_navigation_html_to_tree  *)
(* makes them; a title is the text of the entry, possibly empty.  Every    *)
(* call of adapt_item, BinderItem and TranslucentBinder makes a new        *)
(* object: obj is the path of the entry it was made for.                   *)
(***************************************************************************)

MaxEntries == 2     \* entries of the navigation document at its top level

\* The items of the package by name: the class adapt_item gives each and
\* the title in its own metadata.
AdItemKind(name) ==
    IF name = <<"p1">> THEN "DocumentPointer"
    ELSE IF name = <<"bk2">> THEN "Binder"
    ELSE IF name = <<"nav">> THEN "Binder"
    ELSE "Document"
AdItemTitle(name) ==
    IF name = <<"p1">> THEN "P"
    ELSE IF name = <<"bk2">> THEN "Part"
    ELSE IF name = <<"nav">> THEN "Book"
    ELSE "A"

AdLeaves ==
    {[id |-> id, title |-> t] : id \in {<<"x1">>, <<"p1">>}, t \in {"A", "B", ""}}
AdSubtrees ==
    {[id |-> TRANSLUCENT_BINDER_ID, title |-> t, contents |-> c] :
        t \in {"Ch", ""}, c \in SeqsUpTo(AdLeaves, 1)}
    \cup {[id |-> <<"bk2">>, title |-> t,
           contents |-> <<[id |-> <<"x1">>, title |-> "A"]>>] : t \in {"Part", "Over"}}
AdEntries == AdLeaves \cup AdSubtrees

IsSubtree(tree_or_item) == "contents" \in DOMAIN tree_or_item

\* _node_to_model(tree_or_item, package): the model made for the entry.
\* The children are made one by one: each is appended to the binder by its
\* own call, then its title is compared with the entry's.
RECURSIVE NodeToModel(_, _)
NodeToModel(tree_or_item, path) ==
    IF IsSubtree(tree_or_item)
      THEN LET lucent == tree_or_item.id = TRANSLUCENT_BINDER_ID
               RECURSIVE Children(_, _, _)
               Children(nodes, overrides, i) ==
                   IF i > Len(tree_or_item.contents) THEN <<nodes, overrides>>
                   ELSE LET item == tree_or_item.contents[i]
                            node == NodeToModel(item, path \o <<i>>)
                            both == InsertBoth(nodes, overrides, Len(nodes), node)
                            index == ListIndex(both[1], node)
                        IN  Children(both[1],
                                     IF node.title # item.title
                                       THEN [both[2] EXCEPT ![index] = item.title]
                                       ELSE both[2],
                                     i + 1)
               made == Children(<<>>, <<>>, 1)
           IN  Node(path,
                    IF lucent THEN "TranslucentBinder" ELSE AdItemKind(tree_or_item.id),
                    IF lucent THEN <<>> ELSE tree_or_item.id,
                    IF lucent THEN tree_or_item.title ELSE AdItemTitle(tree_or_item.id),
                    0, <<>>, made[1], made[2])
      ELSE Node(path, AdItemKind(tree_or_item.id), tree_or_item.id,
                AdItemTitle(tree_or_item.id), 0, <<>>, <<>>, <<>>)

\* model_to_tree(model, title): the titles and the shape (the ids of the
\* tree are ident_hashes and are left out).
RECURSIVE ModelToTree(_, _)
ModelToTree(model, title) ==
    IF IsTranslucentBinder(model)
      THEN [title |-> TreeTitle(model, title),
            contents |-> [i \in DOMAIN model.nodes |->
                             ModelToTree(model.nodes[i],
                                         GetTitleForNode(model, model.nodes[i]))]]
      ELSE [title |-> TreeTitle(model, title)]

\* The tree of the navigation document: translucent or not, its title the
\* one of the navigation document itself.
InitAdapt ==
    /\ \E contents \in SeqsUpTo(AdEntries, MaxEntries) :
          \/ ad_tree = [id |-> TRANSLUCENT_BINDER_ID, title |-> "Book",
                        contents |-> contents]
          \/ ad_tree = [id |-> <<"nav">>, title |-> "Book", contents |-> contents]
    /\ ad_binder = <<>>
    /\ ad_out = <<>>
    /\ ParkCore /\ ParkPkg /\ ParkIdent /\ ParkPers /\ ParkMake /\ ParkMeta /\ ParkOpf /\ ParkFlat /\ ParkTree /\ ParkCollate /\ ParkEx /\ ParkNum /\ ParkPub

\* adapt_package(package)
AdaptPackage ==
    /\ ad_tree # <<>> /\ ad_binder = <<>>
    /\ ad_binder' = NodeToModel(ad_tree, <<>>)
    /\ UNCHANGED <<ad_tree, ad_out, notAdapt>>

\* model_to_tree(binder)
ToTree ==
    /\ ad_binder # <<>> /\ ad_out = <<>>
    /\ ad_out' = ModelToTree(ad_binder, None)
    /\ UNCHANGED <<ad_tree, ad_binder, notAdapt>>

NextAdapt == AdaptPackage \/ ToTree

SpecAdapt == InitAdapt /\ [][NextAdapt]_vars

----------------------------------------------------------------------------
(* Properties of the adapted model *)

\* The model has the shape and the child order of the tree; a sub-tree
\* with the translucent id is a TranslucentBinder; each binder holds, at
\* the position of each child, the entry's title when it differs from the
\* child's own and None when it does not.
RECURSIVE Mirrors(_, _)
Mirrors(model, tree) ==
    IF IsSubtree(tree)
      THEN /\ IsTranslucentBinder(model)
           /\ tree.id = TRANSLUCENT_BINDER_ID => model.kind = "TranslucentBinder"
           /\ Len(model.nodes) = Len(tree.contents)
           /\ Len(model.title_overrides) = Len(tree.contents)
           /\ \A i \in DOMAIN tree.contents :
                 /\ Mirrors(model.nodes[i], tree.contents[i])
                 /\ model.nodes[i].id = (IF tree.contents[i].id = TRANSLUCENT_BINDER_ID
                                           THEN <<>> ELSE tree.contents[i].id)
                 /\ model.title_overrides[i] =
                        (IF tree.contents[i].title # model.nodes[i].title
                           THEN tree.contents[i].title ELSE None)
      ELSE ~IsTranslucentBinder(model)

\* The titles of two trees agree entry by entry.
RECURSIVE SameTitles(_, _)
SameTitles(a, b) ==
    /\ a.title = b.title
    /\ IsSubtree(a) = IsSubtree(b)
    /\ IsSubtree(a) =>
          /\ Len(a.contents) = Len(b.contents)
          /\ \A i \in DOMAIN a.contents : SameTitles(a.contents[i], b.contents[i])

\* What holds of the adapted model whatever the titles are.
AdaptedModelMirrorsTree == ad_binder # <<>> => Mirrors(ad_binder, ad_tree)

\* C17: adapt_package builds a model with the shape and child order of the
\* navigation tree; a non-leaf entry without a persisted identifier becomes
\* a TranslucentBinder; for every child the parent records a title
\* override exactly when the navigation title differs from the child's own
\* title, at that child's position, so that model_to_tree reports the
\* navigation title for every entry.
C17_AdaptedModelKeepsTitles ==
    /\ ad_binder # <<>> => Mirrors(ad_binder, ad_tree)
    /\ ad_out # <<>> => SameTitles(ad_out, ad_tree)

----------------------------------------------------------------------------
(***************************************************************************)
(* DocumentMetadataParser.metadata and adapt_item: html_parsers.py,        *)
(* adapters.py                                                             *)
(*                                                                         *)
(* A document is [title, license_url, uri, marker, authors]: for the first *)
(* three whether the element the getter looks for is there, for marker the *)
(* data-value of the data-type="document" element ("absent" without one),  *)
(* and the author elements.  The value of a field that is there is the     *)
(* name of the field; the other optional fields never raise and are left   *)
(* out of the record.                                                      *)
(***************************************************************************)

MdAuthors ==
    { <<>>,
      <<[name |-> 1, elm_id |-> <<"i", "d">>, refinement |-> <<"1">>],
        [name |-> 2, elm_id |-> <<"i", "d">>, refinement |-> <<"2">>]>>,
      <<[name |-> 1, elm_id |-> <<"i", "d">>, refinement |-> <<"1">>],
        [name |-> 2, elm_id |-> <<"i", "d">>, refinement |-> NoneStr]>> }

ParserClasses == {"DocumentMetadataParser", "DocumentPointerMetadataParser"}

\* metadata_required_keys of the two parsers, in their order
RequiredKeys(cls) ==
    IF cls = "DocumentMetadataParser" THEN <<"title", "license_url">>
    ELSE <<"title", "cnx-archive-uri", "is_document_pointer">>
\* The keys of the record of a parser that are modelled.
RecordKeys(cls) ==
    IF cls = "DocumentMetadataParser"
      THEN {"title", "license_url", "cnx-archive-uri"}
      ELSE {"title", "license_url", "cnx-archive-uri", "is_document_pointer"}

\* getattr(self, key.replace('-', '_')) for the fields that are strings
Getter(doc, key) ==
    IF key = "title" THEN (IF doc.title THEN "title" ELSE None)
    ELSE IF key = "license_url" THEN (IF doc.license_url THEN "license_url" ELSE None)
    ELSE IF key = "cnx-archive-uri" THEN (IF doc.uri THEN "cnx-archive-uri" ELSE None)
    ELSE IF doc.marker = "absent" THEN None
    ELSE IF doc.marker = "pointer" THEN "True" ELSE "False"

\* The authors property: _parse_person_info on the author elements.
AuthorsRaise(doc, py) ==
    py = 3 /\ Unorderable3([i \in DOMAIN doc.authors |-> OrderOf(doc.authors[i])])

\* The metadata property with the check of the required keys left out.
MetadataUnchecked(doc, cls, raise_value_error, py) ==
    IF AuthorsRaise(doc, py) THEN <<"TypeError">>
    ELSE <<"record", [key \in RecordKeys(cls) |-> Getter(doc, key)]>>
\* DocumentMetadataParser.metadata: the required keys come first, then the
\* optional ones, the person lists among them.
Metadata(doc, cls, raise_value_error, py) ==
    LET required == RequiredKeys(cls)
        missing == {i \in DOMAIN required : Getter(doc, required[i]) = None}
    IN  IF raise_value_error /\ missing # {}
          THEN <<"ValueError",
                 required[CHOOSE i \in missing : \A j \in missing : i <= j]>>
        ELSE IF AuthorsRaise(doc, py) THEN <<"TypeError">>
        ELSE <<"record", [key \in RecordKeys(cls) |-> Getter(doc, key)]>>

InitMeta ==
    /\ md_doc \in [title : BOOLEAN, license_url : BOOLEAN, uri : BOOLEAN,
                   marker : {"absent", "pointer", "other"}, authors : MdAuthors]
    /\ md_py \in {2, 3}
    /\ md_call = <<>>
    /\ md_ret = <<>>
    /\ ParkCore /\ ParkPkg /\ ParkIdent /\ ParkPers /\ ParkMake /\ ParkAdapt /\ ParkOpf /\ ParkFlat /\ ParkTree /\ ParkCollate /\ ParkEx /\ ParkNum /\ ParkPub

\* cls(html, raise_value_error)()
ParseMetadata(cls, raise_value_error) ==
    /\ md_py # 0 /\ md_call = <<>>
    /\ md_call' = <<cls, raise_value_error>>
    /\ md_ret' = Metadata(md_doc, cls, raise_value_error, md_py)
    /\ UNCHANGED <<md_doc, md_py, notMeta>>

\* adapt_item(item, package) for an item of media type
\* application/xhtml+xml: the lenient probe for the pointer marker, then
\* the constructor of DocumentPointerItem or DocumentItem with its parser.
AdaptItem ==
    /\ md_py # 0 /\ md_call = <<>>
    /\ md_call' = <<"adapt_item">>
    /\ LET probe == Metadata(md_doc, "DocumentPointerMetadataParser", FALSE, md_py)
       IN  IF probe[1] # "record" THEN md_ret' = probe
           ELSE LET cls == IF probe[2]["is_document_pointer"] = "True"
                             THEN "DocumentPointerMetadataParser"
                             ELSE "DocumentMetadataParser"
                    metadata == Metadata(md_doc, cls, TRUE, md_py)
                IN  IF metadata[1] # "record" THEN md_ret' = metadata
                    ELSE md_ret' = <<IF cls = "DocumentMetadataParser"
                                       THEN "DocumentItem" ELSE "DocumentPointerItem",
                                     metadata[2]>>
    /\ UNCHANGED <<md_doc, md_py, notMeta>>

NextMeta ==
    \/ \E cls \in ParserClasses, raise_value_error \in BOOLEAN :
          ParseMetadata(cls, raise_value_error)
    \/ AdaptItem

SpecMeta == InitMeta /\ [][NextMeta]_vars

----------------------------------------------------------------------------
(* Properties of the metadata extraction *)

\* The required fields of a parser that the document lacks.
AbsentRequired(cls) ==
    (IF md_doc.title THEN {} ELSE {"title"})
    \cup (IF cls = "DocumentMetadataParser"
            THEN (IF md_doc.license_url THEN {} ELSE {"license_url"})
            ELSE (IF md_doc.uri THEN {} ELSE {"cnx-archive-uri"})
                 \cup (IF md_doc.marker = "absent" THEN {"is_document_pointer"} ELSE {}))
\* The fields of the record of a parser that the document lacks.
AbsentFields(cls) ==
    AbsentRequired(cls)
    \cup (IF md_doc.license_url THEN {} ELSE {"license_url"})
    \cup (IF md_doc.uri THEN {} ELSE {"cnx-archive-uri"})

\* C20: the extraction fails with an error and returns no record whenever
\* a required field is absent (title or license URL for a document; title,
\* archive URI or pointer marker for a document pointer); in lenient mode
\* it never fails because a field is absent and reports the field as
\* absent.
C20_RequiredFieldsOrLenient ==
    (Len(md_call) = 2) =>
        LET cls == md_call[1] IN
        IF md_call[2]
          THEN AbsentRequired(cls) # {} => md_ret[1] = "ValueError"
          ELSE /\ md_ret[1] # "ValueError"
               /\ md_ret[1] = "record" =>
                     \A key \in AbsentFields(cls) : md_ret[2][key] = None
               /\ md_ret[1] # "record" =>
                     \E d \in [title : {TRUE}, license_url : {TRUE}, uri : {TRUE},
                               marker : {"pointer"}, authors : {md_doc.authors}] :
                        Metadata(d, cls, TRUE, md_py)[1] # "record"

\* The lenient parser has returned a record for a document without a title
\* and without a pointer marker.
C20_Witness ==
    /\ md_call = <<"DocumentPointerMetadataParser", FALSE>>
    /\ ~md_doc.title /\ md_doc.marker = "absent"
    /\ md_ret[1] = "record"
    /\ md_ret[2]["title"] = None

----------------------------------------------------------------------------
(***************************************************************************)
(* OPFParser.metadata: epub.py                                             *)
(*                                                                         *)
(* A manifest is the set of the metadata keys whose element it has (the    *)
(* publisher is read from dc:creator).  The value of a key that is there   *)
(* is the name of the key.                                                 *)
(***************************************************************************)

\* metadata_required_keys without publication_message.
OpfRequiredKeysPublisher == <<"publisher">>
\* OPFParser.metadata_required_keys
OpfRequiredKeys == <<"publisher", "publication_message">>
\* OPFParser.metadata_optional_keys
OpfOptionalKeys ==
    <<"title", "identifier", "language", "license_text", "license_url">>

OpfKeys == Range(OpfRequiredKeys) \cup Range(OpfOptionalKeys)

\* getattr(self, key): the first match of the xpath, None without one
OpfGetter(opf, key) == IF key \in opf THEN key ELSE None

\* OPFParser.metadata
OpfMetadata(opf) ==
    LET missing == {i \in DOMAIN OpfRequiredKeys :
                        OpfGetter(opf, OpfRequiredKeys[i]) = None}
    IN  IF missing # {}
          THEN <<"MissingMetadataError",
                 OpfRequiredKeys[CHOOSE i \in missing : \A j \in missing : i <= j]>>
          ELSE <<"items",
                 [key \in {k \in OpfKeys : OpfGetter(opf, k) # None} |->
                      OpfGetter(opf, key)]>>

InitOpf ==
    /\ o_opf \in SUBSET {"publisher", "publication_message", "title", "identifier",
                         "language", "license_text", "license_url"}
    /\ o_ret = <<>>
    /\ ParkCore /\ ParkPkg /\ ParkIdent /\ ParkPers /\ ParkMake /\ ParkAdapt /\ ParkMeta /\ ParkFlat /\ ParkTree /\ ParkCollate /\ ParkEx /\ ParkNum /\ ParkPub

\* Package.from_file: OPFParser(opf_xml).metadata
ParseOpf ==
    /\ o_ret = <<>>
    /\ o_ret' = OpfMetadata(o_opf)
    /\ o_ret' # <<>>
    /\ UNCHANGED <<o_opf, notOpf>>

NextOpf == ParseOpf

SpecOpf == InitOpf /\ [][NextOpf]_vars

----------------------------------------------------------------------------
(* Properties of the manifest metadata *)

AllOpfFields ==
    {"publisher", "publication_message", "title", "identifier", "language",
     "license_text", "license_url"}

\* C21 (as stated): reading a manifest fails whenever any of title,
\* creator/publisher, identifier, language, license_url or
\* publication_message is missing; license_text is the only field whose
\* absence is accepted.
C21_AllButLicenseTextRequired ==
    o_ret # <<>> =>
        (o_ret[1] = "MissingMetadataError"
            <=> (AllOpfFields \ {"license_text"}) \ o_opf # {})

\* C21 (amended): reading a manifest fails with MissingMetadataError exactly
\* when the creator/publisher or the publication_message is missing; title,
\* identifier, language, license_text and license_url may be absent, and
\* the record then holds the fields that are there and no others.
C21_PublisherAndMessageRequired ==
    o_ret # <<>> =>
        IF {"publisher", "publication_message"} \ o_opf # {}
          THEN o_ret[1] = "MissingMetadataError"
          ELSE /\ o_ret[1] = "items"
               /\ DOMAIN o_ret[2] = o_opf
               /\ \A key \in o_opf : o_ret[2][key] = key

\* A manifest with a publisher and no publication_message has been refused,
\* one with both and without a title would be read.
C21_Witness ==
    /\ o_opf = {"publisher", "title"}
    /\ o_ret = <<"MissingMetadataError", "publication_message">>

----------------------------------------------------------------------------
(***************************************************************************)
(* flatten_model, flatten_to_documents: models.py                          *)
(*                                                                         *)
(* Both are generators.  A generator of flatten_model is the stack of its  *)
(* nested frames, each the model of the frame and how far its loop over    *)
(* the children has come (0: the model itself is still to be yielded).     *)
(* One step is one next() on the generator the caller holds.               *)
(***************************************************************************)

MaxChildren == 2

FlNode(obj, kind, nodes) == [obj |-> obj, kind |-> kind, nodes |-> nodes]

FlLeaves ==
    {FlNode("d1", "Document", <<>>), FlNode("c1", "CompositeDocument", <<>>),
     FlNode("p1", "DocumentPointer", <<>>)}

FlSubBinders ==
    {FlNode("t1", "TranslucentBinder", <<>>),
     FlNode("t2", "TranslucentBinder",
            <<FlNode("d1", "Document", <<>>), FlNode("p1", "DocumentPointer", <<>>)>>),
     FlNode("b2", "Binder",
            <<FlNode("t3", "TranslucentBinder", <<FlNode("d2", "Document", <<>>)>>)>>)}

FlModels ==
    {FlNode("b1", "Binder", nodes) :
        nodes \in SeqsUpTo(FlLeaves \cup FlSubBinders, MaxChildren)}

FlFrame(model) == [model |-> model, at |-> 0]

FlReplaceTop(stack, frame) == [stack EXCEPT ![Len(stack)] = frame]

\* flatten_model that does not go into the children.
RECURSIVE FlResumeShallow(_)
FlResumeShallow(stack) ==
    IF stack = <<>> THEN [stack |-> <<>>, yielded |-> <<>>]
    ELSE LET top == stack[Len(stack)]
         IN  IF top.at = 0
               THEN [stack |-> FlReplaceTop(stack, [top EXCEPT !.at = 1]),
                     yielded |-> <<top.model>>]
               ELSE FlResumeShallow(SubSeq(stack, 1, Len(stack) - 1))
\* flatten_model: the generator runs on to its next yield, or to its end
RECURSIVE FlResume(_)
FlResume(stack) ==
    IF stack = <<>> THEN [stack |-> <<>>, yielded |-> <<>>]
    ELSE LET top == stack[Len(stack)]
         IN  IF top.at = 0
               THEN [stack |-> FlReplaceTop(stack, [top EXCEPT !.at = 1]),
                     yielded |-> <<top.model>>]
             ELSE IF IsTranslucentBinder(top.model) /\ top.at <= Len(top.model.nodes)
               THEN FlResume(Append(FlReplaceTop(stack, [top EXCEPT !.at = top.at + 1]),
                                    FlFrame(top.model.nodes[top.at])))
             ELSE FlResume(SubSeq(stack, 1, Len(stack) - 1))

\* _filter of flatten_to_documents
FlFilter(m, include_pointers) ==
    \/ m.kind \in {"Document", "CompositeDocument"}
    \/ include_pointers /\ m.kind = "DocumentPointer"

\* flatten_to: next() on the inner generator until the filter lets one through
RECURSIVE FlattenTo(_, _)
FlattenTo(stack, include_pointers) ==
    LET r == FlResume(stack)
    IN  IF r.yielded = <<>> \/ FlFilter(r.yielded[1], include_pointers)
          THEN r
          ELSE FlattenTo(r.stack, include_pointers)

NoGen == [fn |-> "none", include_pointers |-> FALSE, stack |-> <<>>,
          out |-> <<>>, done |-> FALSE]

GenIds == {1, 2}

InitFlat ==
    /\ fl_model \in FlModels
    /\ fl_gens = [g \in GenIds |-> NoGen]
    /\ ParkCore /\ ParkPkg /\ ParkIdent /\ ParkPers /\ ParkMake /\ ParkAdapt /\ ParkMeta /\ ParkOpf /\ ParkTree /\ ParkCollate /\ ParkEx /\ ParkNum /\ ParkPub

\* g = flatten_model(model)
FlattenModelCall(g) ==
    /\ fl_gens[g].fn = "none" \/ fl_gens[g].done
    /\ fl_gens' = [fl_gens EXCEPT ![g] =
                      [fn |-> "flatten_model", include_pointers |-> FALSE,
                       stack |-> <<FlFrame(fl_model)>>, out |-> <<>>, done |-> FALSE]]
    /\ UNCHANGED <<fl_model, notFlat>>

\* g = flatten_to_documents(model, include_pointers)
FlattenToDocumentsCall(g, include_pointers) ==
    /\ fl_gens[g].fn = "none" \/ fl_gens[g].done
    /\ fl_gens' = [fl_gens EXCEPT ![g] =
                      [fn |-> "flatten_to_documents", include_pointers |-> include_pointers,
                       stack |-> <<FlFrame(fl_model)>>, out |-> <<>>, done |-> FALSE]]
    /\ UNCHANGED <<fl_model, notFlat>>

\* next(g)
NextItem(g) ==
    /\ fl_gens[g].fn # "none"
    /\ ~fl_gens[g].done
    /\ LET gen == fl_gens[g]
           r == IF gen.fn = "flatten_model" THEN FlResume(gen.stack)
                ELSE FlattenTo(gen.stack, gen.include_pointers)
       IN  fl_gens' = [fl_gens EXCEPT ![g] =
                          [gen EXCEPT !.stack = r.stack,
                                      !.out = gen.out \o r.yielded,
                                      !.done = (r.yielded = <<>>)]]
    /\ UNCHANGED <<fl_model, notFlat>>

NextFlat ==
    \/ \E g \in GenIds : FlattenModelCall(g)
    \/ \E g \in GenIds, include_pointers \in BOOLEAN :
            FlattenToDocumentsCall(g, include_pointers)
    \/ \E g \in GenIds : NextItem(g)

SpecFlat == InitFlat /\ [][NextFlat]_vars

----------------------------------------------------------------------------
(* Properties of the traversals *)

\* The positions of a tree: the paths of child numbers from the root.
RECURSIVE Positions(_)
Positions(model) ==
    {<<>>} \cup UNION {{<<i>> \o p : p \in Positions(model.nodes[i])} :
                            i \in DOMAIN model.nodes}

RECURSIVE NodeAt(_, _)
NodeAt(model, path) ==
    IF path = <<>> THEN model ELSE NodeAt(model.nodes[path[1]], Tail(path))

\* p comes before q in pre-order: p is a proper prefix of q, or goes to an
\* earlier child where the two part.
Precedes(p, q) ==
    \/ Len(p) < Len(q) /\ SubSeq(q, 1, Len(p)) = p
    \/ \E k \in 1..Min(Len(p), Len(q)) :
            /\ SubSeq(p, 1, k - 1) = SubSeq(q, 1, k - 1)
            /\ p[k] < q[k]

PreOrder(model) ==
    LET ps == Positions(model)
    IN  [i \in 1..Cardinality(ps) |->
            NodeAt(model, CHOOSE p \in ps :
                              Cardinality({q \in ps : Precedes(q, p)}) = i - 1)]

Wanted(gen) ==
    IF gen.fn = "flatten_model" THEN PreOrder(fl_model)
    ELSE SelectSeq(PreOrder(fl_model),
                   LAMBDA m : \/ m.kind \in {"Document", "CompositeDocument"}
                              \/ gen.include_pointers /\ m.kind = "DocumentPointer")

IsPrefix(s, t) == Len(s) <= Len(t) /\ SubSeq(t, 1, Len(s)) = s

\* C22: flatten_model yields the node of every position of the tree once, in
\* pre-order; flatten_to_documents yields the Document and CompositeDocument
\* nodes of that sequence in the same order, and the DocumentPointer nodes
\* too when include_pointers is set; every call has a traversal of its own,
\* which never yields more than that sequence and has yielded all of it
\* when it ends, whatever the other traversal over the same model has done.
C22_PreOrderTraversal ==
    \A g \in DOMAIN fl_gens :
        fl_gens[g].fn # "none" =>
            /\ IsPrefix(fl_gens[g].out, Wanted(fl_gens[g]))
            /\ fl_gens[g].done => fl_gens[g].out = Wanted(fl_gens[g])

\* A binder holding a nested binder and the same document twice has been
\* walked to the end by flatten_model while a second traversal, of
\* flatten_to_documents with the pointers, is half way.
C22_Witness ==
    /\ fl_model.nodes = <<FlNode("t2", "TranslucentBinder",
                                 <<FlNode("d1", "Document", <<>>),
                                   FlNode("p1", "DocumentPointer", <<>>)>>),
                          FlNode("d1", "Document", <<>>)>>
    /\ fl_gens[1].fn = "flatten_model" /\ fl_gens[1].done
    /\ Len(fl_gens[1].out) = 5
    /\ fl_gens[2].fn = "flatten_to_documents" /\ fl_gens[2].include_pointers
    /\ ~fl_gens[2].done
    /\ Len(fl_gens[2].out) = 2

----------------------------------------------------------------------------
(***************************************************************************)
(* model_to_tree: models.py                                                *)
(*                                                                         *)
(* The models are given as they are, children and title overrides side by  *)
(* side.  The id of a node stands for its ident_hash (<<>> is None); a     *)
(* child is the same object as another when the two records are equal, as  *)
(* list.index finds it.                                                    *)
(***************************************************************************)

TrDoc(name, title) == Node(name, "Document", name, title, 0, <<>>, <<>>, <<>>)

TrKids ==
    {TrDoc(<<"d1">>, "D1"), TrDoc(<<"d2">>, "D2"),
     Node(<<"b2">>, "Binder", <<>>, "B2", 0, <<>>, <<>>, <<>>)}
    \cup {Node(<<"t1">>, "TranslucentBinder", <<>>, "T1", 0, <<>>,
               <<TrDoc(<<"d1">>, "D1")>>, <<o>>) : o \in {None, "A"}}

TrOverrides == {None, "A", "B", ""}

TrModels ==
    UNION {{Node(<<"b1">>, "Binder", <<"b1">>, "Book", 0, <<>>, nodes, overrides) :
                nodes \in [1..n -> TrKids], overrides \in [1..n -> TrOverrides]} :
           n \in 0..MaxChildren}

\* model_to_tree(model, title, lucent_id): id, title and contents of the
\* tree (shortId is left out)
RECURSIVE ModelToTreeWithIds(_, _)
ModelToTreeWithIds(model, title) ==
    LET id == IF model.id = <<>> /\ IsTranslucentBinder(model)
                THEN TRANSLUCENT_BINDER_ID ELSE model.id
    IN  IF IsTranslucentBinder(model)
          THEN [id |-> id, title |-> TreeTitle(model, title),
                contents |-> [i \in DOMAIN model.nodes |->
                                 ModelToTreeWithIds(model.nodes[i],
                                     GetTitleForNode(model, model.nodes[i]))]]
          ELSE [id |-> id, title |-> TreeTitle(model, title)]

InitTree ==
    /\ tr_model \in TrModels
    /\ tr_out = <<>>
    /\ ParkCore /\ ParkPkg /\ ParkIdent /\ ParkPers /\ ParkMake /\ ParkAdapt /\ ParkMeta /\ ParkOpf /\ ParkFlat /\ ParkCollate /\ ParkEx /\ ParkNum /\ ParkPub

\* model_to_tree(model)
ModelToTreeCall ==
    /\ tr_out = <<>>
    /\ tr_out' = ModelToTreeWithIds(tr_model, None)
    /\ UNCHANGED <<tr_model, notTree>>

NextTree == ModelToTreeCall

SpecTree == InitTree /\ [][NextTree]_vars

----------------------------------------------------------------------------
(* Properties of the tree *)

\* The tree of a model, position by position: the id is the ident_hash,
\* 'subcol' for a TranslucentBinder (and a Binder, which is one, without an
\* ident_hash); the title is the override the parent holds at the child's
\* position when one is set, the node's own otherwise.
RECURSIVE TreeByPosition(_, _)
TreeByPosition(model, override) ==
    LET id    == IF IsTranslucentBinder(model) /\ model.id = <<>>
                   THEN TRANSLUCENT_BINDER_ID ELSE model.id
        title == IF override # None THEN override ELSE model.title
    IN  IF IsTranslucentBinder(model)
          THEN [id |-> id, title |-> title,
                contents |-> [i \in DOMAIN model.nodes |->
                                 TreeByPosition(model.nodes[i],
                                                model.title_overrides[i])]]
          ELSE [id |-> id, title |-> title]

\* C23: model_to_tree(model) returns a tree with the shape and child order
\* of the model, in which each entry's id is the node's ident_hash ('subcol'
\* for a TranslucentBinder) and the title of the child at position i of a
\* binder is the override the binder holds at position i when one is set,
\* otherwise the child's own title.
C23_TreeMirrorsModel ==
    tr_out # <<>> => tr_out = TreeByPosition(tr_model, None)

\* What holds of the tree whatever the overrides are: shape, child order
\* and ids.
RECURSIVE SameShape(_, _)
SameShape(tree, model) ==
    /\ ("contents" \in DOMAIN tree) = IsTranslucentBinder(model)
    /\ tree.id = (IF IsTranslucentBinder(model) /\ model.id = <<>>
                    THEN TRANSLUCENT_BINDER_ID ELSE model.id)
    /\ IsTranslucentBinder(model) =>
          /\ Len(tree.contents) = Len(model.nodes)
          /\ \A i \in DOMAIN model.nodes : SameShape(tree.contents[i], model.nodes[i])

TreeHasShapeOfModel == tr_out # <<>> => SameShape(tr_out, tr_model)

----------------------------------------------------------------------------
(***************************************************************************)
(* collate: collation.py                                                   *)
(*                                                                         *)
(* The binder is a book of the formatter; its resources are given by their *)
(* filenames.  What collate returns is [same, model]: whether the object   *)
(* is the binder it was given, and the model.  The ruleset of a binder     *)
(* that has one is blank, so that the oven leaves the document as the      *)
(* formatter made it.                                                      *)
(***************************************************************************)

MaxResources == 2

CoFilenames == {"ruleset.css", "cover.png"}

CoNodes ==
    {ShapePage, ShapeComposite, ShapePointer,
     Chapter("c1", <<ShapePage>>, <<"Over">>)}

\* The ruleset taken from whatever resource comes first.
RulesetResourceAny(resources) == resources
\* [r for r in binder.resources if r.filename == 'ruleset.css']
RulesetResource(resources) == SelectSeq(resources, LAMBDA r : r = "ruleset.css")

\* easybake(ruleset, in_html, out_html) with a blank ruleset
Easybake(ruleset, in_html) == in_html

\* collate(binder): the formatter is made and serialized first, then the
\* ruleset is looked for
CollateResult(b, resources) ==
    LET raw_html == BuildRoot(b, RootBody(b))
        ruleset_resource == RulesetResource(resources)
    IN  IF ruleset_resource = <<>>
          THEN [same |-> TRUE, model |-> b]
          ELSE [same |-> FALSE,
                model |-> AdaptSingleHtml(Easybake(ruleset_resource[1], raw_html))]

InitCollate ==
    /\ \E nodes \in SeqsUpTo(CoNodes, MaxNodes) :
          \E ov \in OverridesFor(Len(nodes)) : co_binder = Book(nodes, ov)
    /\ co_resources \in SeqsUpTo(CoFilenames, MaxResources)
    /\ co_ret = <<>>
    /\ ParkCore /\ ParkPkg /\ ParkIdent /\ ParkPers /\ ParkMake /\ ParkAdapt /\ ParkMeta /\ ParkOpf /\ ParkFlat /\ ParkTree /\ ParkEx /\ ParkNum /\ ParkPub

\* collate(binder)
Collate ==
    /\ co_ret = <<>>
    /\ co_ret' = CollateResult(co_binder, co_resources)
    /\ UNCHANGED <<co_binder, co_resources, notCollate>>

NextCollate == Collate

SpecCollate == InitCollate /\ [][NextCollate]_vars

----------------------------------------------------------------------------
(* Properties of collate *)

NoRuleset(resources) == \A i \in DOMAIN resources : resources[i] # "ruleset.css"

\* C24: collate(binder) on a binder without a ruleset resource returns the
\* binder it was given, and the binder's children, title overrides, page
\* contents and metadata, and its resources, are after the call what they
\* were before it.
C24_NoRulesetReturnsBinder ==
    [][(co_ret = <<>> /\ co_ret' # <<>> /\ NoRuleset(co_resources)) =>
            /\ co_ret'.same
            /\ co_ret'.model = co_binder
            /\ co_binder' = co_binder
            /\ co_resources' = co_resources]_vars

\* A binder with a chapter whose page has a title override, and with a
\* cover among its resources but no ruleset, has been returned as it is.
C24_Witness ==
    /\ co_ret # <<>> /\ co_ret.same
    /\ co_resources = <<"cover.png">>
    /\ co_binder.nodes = <<Chapter("c1", <<ShapePage>>, <<"Over">>), ShapePage>>
    /\ co_binder.title_overrides = <<"Over", None>>

----------------------------------------------------------------------------
(***************************************************************************)
(* _replace_exercises and _annotate_exercise under the pool of build:      *)
(* formatters.py                                                           *)
(*                                                                         *)
(* One page with two paragraphs; the matched links and the element of the  *)
(* feature the exercises name are children of the paragraphs.  build has   *)
(* submitted one call per matched link; each exercise is found on the      *)
(* server and carries a feature tag.  A call goes through: the request,    *)
(* the search of the page for the feature (ElementPath walks the tree      *)
(* element by element, other threads run in between), the insertion of     *)
(* the rendered exercise before the link, and the removal of the link.     *)
(* A search during which another call edited the page may have walked off  *)
(* the tree at an unlinked element: it finds the feature or does not.      *)
(***************************************************************************)

MaxLinks == 2

Links == 1..MaxLinks
Paragraphs == {"p1", "p2"}

ExItem(kind, of) == [kind |-> kind, of |-> of]

\* The links of a paragraph, in document order.
RECURSIVE LinksIn(_, _, _)
LinksIn(where, p, l) ==
    IF l > MaxLinks THEN <<>>
    ELSE (IF where[l] = p THEN <<ExItem("a", l)>> ELSE <<>>) \o LinksIn(where, p, l + 1)

ExPosition(seq, item) == CHOOSE i \in DOMAIN seq : seq[i] = item

ExRunning(st) == {l \in Links : st[l] \in {"requested", "searching", "annotated", "inserted"}}

ExSearching(st) == {l \in Links : st[l] = "searching"}

\* parent.insert(parent.index(elem), child) for the rendered exercise
ExInsertBefore(page, p, l) ==
    LET i == ExPosition(page[p], ExItem("a", l))
    IN  [page EXCEPT ![p] = SubSeq(page[p], 1, i - 1) \o <<ExItem("exercise", l)>>
                                \o SubSeq(page[p], i, Len(page[p]))]

\* parent.remove(elem)
ExRemoveLink(page, p, l) ==
    [page EXCEPT ![p] = SelectSeq(page[p], LAMBDA c : c # ExItem("a", l))]

ExParent(page, l) == CHOOSE p \in Paragraphs : ExItem("a", l) \in Range(page[p])

\* maybe_feature / feature_element of _annotate_exercise: whether the
\* search finds the feature element
ExFeatureFound(torn, l) == IF l \in torn THEN {TRUE, FALSE} ELSE {TRUE}

InitEx ==
    /\ \E where \in [Links -> Paragraphs], first \in BOOLEAN :
          ex_page = [p \in Paragraphs |->
                        (IF p = "p1" /\ first THEN <<ExItem("feature", 0)>> ELSE <<>>)
                        \o LinksIn(where, p, 1)
                        \o (IF p = "p2" /\ ~first THEN <<ExItem("feature", 0)>> ELSE <<>>)]
    /\ ex_workers \in 1..2
    /\ ex_pc = [l \in Links |-> "queued"]
    /\ ex_torn = {}
    /\ ParkCore /\ ParkPkg /\ ParkIdent /\ ParkPers /\ ParkMake /\ ParkAdapt /\ ParkMeta /\ ParkOpf /\ ParkFlat /\ ParkTree /\ ParkCollate /\ ParkNum /\ ParkPub

\* A worker thread of the pool takes the call; _replace_exercises up to
\* the answer of the server.
ExStart(l) ==
    /\ ex_pc[l] = "queued"
    /\ Cardinality(ExRunning(ex_pc)) < ex_workers
    /\ ex_pc' = [ex_pc EXCEPT ![l] = "requested"]
    /\ UNCHANGED <<ex_page, ex_workers, ex_torn, notEx>>

\* _annotate_exercise: the search for the feature begins.
ExSearch(l) ==
    /\ ex_pc[l] = "requested"
    /\ ex_pc' = [ex_pc EXCEPT ![l] = "searching"]
    /\ ex_torn' = ex_torn \ {l}
    /\ UNCHANGED <<ex_page, ex_workers, notEx>>

\* _annotate_exercise: the search is over; without the feature the call
\* raises, and the exception stays with the future build has dropped.
ExAnnotate(l) ==
    /\ ex_pc[l] = "searching"
    /\ \E found \in ExFeatureFound(ex_torn, l) :
          ex_pc' = [ex_pc EXCEPT ![l] = IF found THEN "annotated" ELSE "raised"]
    /\ UNCHANGED <<ex_page, ex_workers, ex_torn, notEx>>

\* _replace_exercises: for child in nodes: parent.insert(...)
ExInsert(l) ==
    /\ ex_pc[l] = "annotated"
    /\ ex_page' = ExInsertBefore(ex_page, ExParent(ex_page, l), l)
    /\ ex_pc' = [ex_pc EXCEPT ![l] = "inserted"]
    /\ ex_torn' = ex_torn \cup (ExSearching(ex_pc) \ {l})
    /\ UNCHANGED <<ex_workers, notEx>>

\* _replace_exercises: parent.remove(elem)
ExRemove(l) ==
    /\ ex_pc[l] = "inserted"
    /\ ex_page' = ExRemoveLink(ex_page, ExParent(ex_page, l), l)
    /\ ex_pc' = [ex_pc EXCEPT ![l] = "done"]
    /\ ex_torn' = ex_torn \cup (ExSearching(ex_pc) \ {l})
    /\ UNCHANGED <<ex_workers, notEx>>

NextEx ==
    \/ \E l \in Links : ExStart(l)
    \/ \E l \in Links : ExSearch(l)
    \/ \E l \in Links : ExAnnotate(l)
    \/ \E l \in Links : ExInsert(l)
    \/ \E l \in Links : ExRemove(l)

SpecEx == InitEx /\ [][NextEx]_vars

----------------------------------------------------------------------------
(* Properties of the exercise mutator under the pool *)

\* Two calls are in the middle of editing the children of one paragraph.
ModifySameElement ==
    \E l, k \in Links :
        /\ l # k
        /\ ex_pc[l] = "inserted" /\ ex_pc[k] = "inserted"
        /\ ExParent(ex_page, l) = ExParent(ex_page, k)

\* A call is searching the page that another call has edited meanwhile.
ReadWhileModified == \E l \in Links : ex_pc[l] = "searching" /\ l \in ex_torn

\* Every link replaced by its exercise, where it was.
SingleWorkerPage(page) ==
    [p \in Paragraphs |->
        [i \in DOMAIN page[p] |->
            IF page[p][i].kind = "a" THEN ExItem("exercise", page[p][i].of)
            ELSE page[p][i]]]

ExFinished == \A l \in Links : ex_pc[l] \in {"done", "raised"}

\* C26: with more than one worker, no two calls running at the same time
\* modify the same element, none modifies an element another is reading,
\* and the page after all the calls is the one a single worker gives: every
\* matched link replaced by its exercise.
C26_CallsDoNotInterfere ==
    /\ ~ModifySameElement
    /\ ~ReadWhileModified
    /\ ExFinished => /\ \A l \in Links : ex_pc[l] = "done"
                     /\ \A p \in Paragraphs :
                           \A i \in DOMAIN ex_page[p] : ex_page[p][i].kind # "a"

\* What holds with one worker.
OneWorkerIsSequential ==
    ex_workers = 1 => /\ ~ModifySameElement
                      /\ ~ReadWhileModified
                      /\ \A l \in Links : ex_pc[l] # "raised"

----------------------------------------------------------------------------
(* Properties of the title overrides of the binder (SpecBinder) *)

\* The binder under watch as get_title_for_node reads it.
BinderNow == [nodes |-> b_nodes, title_overrides |-> b_title_overrides]

\* The two lists are of one length and no child is in the binder twice.
OneOverridePerChild ==
    /\ Len(b_title_overrides) = Len(b_nodes)
    /\ \A i, j \in DOMAIN b_nodes : b_nodes[i] = b_nodes[j] => i = j

\* The step is an append, an insert, a delete of an item, a replacement of
\* an item or a reverse.
SequenceOperation ==
    \/ \E i \in Indexes, v \in NodeObjs : Insert(i, v)
    \/ \E v \in NodeObjs : AppendNode(v)
    \/ \E i \in Indexes : DelItem(i)
    \/ \E i \in Indexes, v \in NodeObjs : SetItem(i, v)
    \/ Reverse

\* C28: a title override stays with the child it was set for: over an
\* append, an insert, a delete, a replacement of an item or a reverse,
\* get_title_for_node(n) of a child n that is still in the binder is what
\* it was before, and for a child the operation has put in it is None.
C28_OverrideStaysWithChild ==
    [][(OneOverridePerChild /\ OneOverridePerChild' /\ SequenceOperation) =>
            \A n \in Range(b_nodes') :
                GetTitleForNode(BinderNow', n) =
                    (IF n \in Range(b_nodes) THEN GetTitleForNode(BinderNow, n)
                     ELSE None)]_vars

\* What holds of set_title_for_node, insert, append and delete: the
\* override goes to the child named and the others keep theirs.
OverridesKeptByInsertAndDelete ==
    [][(OneOverridePerChild /\ OneOverridePerChild') =>
          /\ ((\E i \in Indexes, v \in NodeObjs : Insert(i, v))
              \/ (\E i \in Indexes : DelItem(i))) =>
                 \A n \in Range(b_nodes') :
                     GetTitleForNode(BinderNow', n) =
                         (IF n \in Range(b_nodes) THEN GetTitleForNode(BinderNow, n)
                          ELSE None)
          /\ \A m \in Range(b_nodes), t \in Titles \cup {None} :
                 SetTitleForNode(m, t) =>
                     \A n \in Range(b_nodes') :
                         GetTitleForNode(BinderNow', n) =
                             (IF n = m THEN t ELSE GetTitleForNode(BinderNow, n))]_vars

----------------------------------------------------------------------------
(***************************************************************************)
(* apply_numchapters: scripts/single_html/main.py                          *)
(*                                                                         *)
(* A node is [obj, kind, nodes]; every node of a book is an object of its  *)
(* own, named by its place in the book as it was given.  single_html has   *)
(* set partcount['chapter'] to 0 before the call.                          *)
(***************************************************************************)

MaxParts == 3

NcNode(obj, kind, nodes) == [obj |-> obj, kind |-> kind, nodes |-> nodes]

NcPage(obj) == NcNode(obj, "Document", <<>>)
NcChapter(obj) == NcNode(obj, "TranslucentBinder", <<NcPage(obj \o <<1>>)>>)

\* The parts a book is made of: a page, a chapter, a unit of one chapter
\* and a unit of two.
NcPart(shape, obj) ==
    IF shape = "page" THEN NcPage(obj)
    ELSE IF shape = "chapter" THEN NcChapter(obj)
    ELSE IF shape = "unit1"
      THEN NcNode(obj, "TranslucentBinder", <<NcChapter(obj \o <<1>>)>>)
    ELSE NcNode(obj, "TranslucentBinder",
                <<NcChapter(obj \o <<1>>), NcChapter(obj \o <<2>>)>>)

NcShapes == {"page", "chapter", "unit1", "unit2"}

NcBooks ==
    {NcNode(<<>>, "Binder", [i \in DOMAIN shapes |-> NcPart(shapes[i], <<i>>)]) :
        shapes \in SeqsUpTo(NcShapes, MaxParts)}

\* html.get_node_type(node), without a parent
NcNodeType(node) ==
    IF node.kind = "CompositeDocument" THEN "composite-page"
    ELSE IF node.kind \in {"Document", "DocumentPointer"} THEN "page"
    ELSE IF node.kind = "Binder" THEN "book"
    ELSE IF \E i \in DOMAIN node.nodes : IsTranslucentBinder(node.nodes[i]) THEN "unit"
    ELSE "chapter"

\* apply_numchapters(get_node_type, binder, numchapters) with chapter the
\* value of partcount['chapter'] at the call: the binder and the count
\* after it.  enumerate(binder) asks the binder for item 0, 1, 2, ... until
\* there is none, while the loop deletes from the binder.
RECURSIVE ApplyNumchapters(_, _, _)
ApplyNumchapters(b, chapter, numchapters) ==
    LET RECURSIVE Loop(_, _, _)
        Loop(nodes, i, count) ==
            IF i > Len(nodes) THEN [binder |-> [b EXCEPT !.nodes = nodes], chapter |-> count]
            ELSE LET node == nodes[i]
                     sub  == IF NcNodeType(node) = "chapter"
                               THEN [binder |-> node, chapter |-> count + 1]
                             ELSE IF IsTranslucentBinder(node)
                               THEN ApplyNumchapters(node, count, numchapters)
                             ELSE [binder |-> node, chapter |-> count]
                 IN  IF sub.chapter > numchapters
                       THEN Loop(ListDelete(nodes, i), i + 1, sub.chapter)
                       ELSE Loop([nodes EXCEPT ![i] = sub.binder], i + 1, sub.chapter)
    IN  Loop(b.nodes, 1, chapter)

InitNum ==
    /\ nc_binder \in NcBooks
    /\ nc_numchapters \in 1..MaxParts
    /\ nc_out = <<>>
    /\ ParkCore /\ ParkPkg /\ ParkIdent /\ ParkPers /\ ParkMake /\ ParkAdapt /\ ParkMeta /\ ParkOpf /\ ParkFlat /\ ParkTree /\ ParkCollate /\ ParkEx /\ ParkPub

\* single_html: apply_numchapters(html.get_node_type, binder, numchapters)
TruncateBinder ==
    /\ nc_out = <<>>
    /\ nc_out' = <<ApplyNumchapters(nc_binder, 0, nc_numchapters).binder>>
    /\ UNCHANGED <<nc_binder, nc_numchapters, notNum>>

NextNum == TruncateBinder

SpecNum == InitNum /\ [][NextNum]_vars

----------------------------------------------------------------------------
(* Properties of the truncated binder *)

\* The chapters of a binder in document order, by object.
RECURSIVE NcChapters(_)
NcChapters(node) ==
    LET RECURSIVE Each(_)
        Each(i) == IF i > Len(node.nodes) THEN <<>>
                   ELSE NcChapters(node.nodes[i]) \o Each(i + 1)
    IN  IF node.kind = "TranslucentBinder" /\ NcNodeType(node) = "chapter"
          THEN <<node.obj>>
          ELSE Each(1)

\* The objects of a binder in document order.
RECURSIVE NcObjects(_)
NcObjects(node) ==
    LET RECURSIVE Each(_)
        Each(i) == IF i > Len(node.nodes) THEN <<>>
                   ELSE NcObjects(node.nodes[i]) \o Each(i + 1)
    IN  <<node.obj>> \o Each(1)

\* The chapters of the book given that are still in the binder.
NcRemaining(book, after) ==
    SelectSeq(NcChapters(book), LAMBDA c : c \in Range(NcObjects(after)))

\* C29: after apply_numchapters(get_node_type, binder, N) the chapters
\* that remain in the binder are the first min(N, total) chapters of the
\* book in document order.
C29_FirstChaptersRemain ==
    nc_out # <<>> =>
        NcRemaining(nc_binder, nc_out[1]) =
            SubSeq(NcChapters(nc_binder), 1,
                   Min(nc_numchapters, Len(NcChapters(nc_binder))))

\* What holds: a book with no more than N chapters is left as it is.
FewChaptersUntouched ==
    (nc_out # <<>> /\ Len(NcChapters(nc_binder)) <= nc_numchapters) =>
        nc_out[1] = nc_binder

----------------------------------------------------------------------------
(***************************************************************************)
(* make_publication_epub: adapters.py                                      *)
(*                                                                         *)
(* A binder is [metadata, doc_id]: metadata is the dict object it holds,   *)
(* [obj, keys] with obj the identity of the dict and keys its keys; doc_id *)
(* is the id of the one document in the binder, <<>> when it is None.      *)
(***************************************************************************)

MaxBinders == 2

PbMetadataKeys == {"title", "license_url"}

PbBinders ==
    {[metadata |-> [obj |-> "given", keys |-> keys], doc_id |-> id] :
        keys \in SUBSET PbMetadataKeys, id \in {<<>>, <<"d", "1">>}}

\* _make_package(binder): the item of a document is named
\* ''.join([model.ident_hash, extensions[model.id]]), a TypeError when the
\* document has no id
MakePackageRaises(b) == b.doc_id = <<>>

\* metadata = binder.metadata; binder.metadata = deepcopy(metadata);
\* binder.metadata.update({'publisher': ..., 'publication_message': ...})
PublicationMetadata(b) ==
    [b EXCEPT !.metadata = [obj |-> "copy",
                            keys |-> b.metadata.keys
                                        \cup {"publisher", "publication_message"}]]

\* The loop of make_publication_epub from binder i on: each binder gets
\* the copy, is packaged, and gets its own metadata back; an exception of
\* _make_package leaves the loop there.
RECURSIVE PublicationLoop(_, _)
PublicationLoop(binders, i) ==
    IF i > Len(binders) THEN [binders |-> binders, ret |-> <<"written">>]
    ELSE IF MakePackageRaises(PublicationMetadata(binders[i]))
      THEN [binders |-> [binders EXCEPT ![i] = PublicationMetadata(binders[i])],
            ret |-> <<"TypeError", i>>]
    ELSE PublicationLoop(binders, i + 1)

InitPub ==
    /\ pb_binders \in SeqsUpTo(PbBinders, MaxBinders)
    /\ pb_after = <<>>
    /\ pb_ret = <<>>
    /\ ParkCore /\ ParkPkg /\ ParkIdent /\ ParkPers /\ ParkMake /\ ParkAdapt /\ ParkMeta /\ ParkOpf /\ ParkFlat /\ ParkTree /\ ParkCollate /\ ParkEx /\ ParkNum

\* make_publication_epub(binders, publisher, publication_message, file)
MakePublicationEpub ==
    /\ pb_ret = <<>>
    /\ pb_after' = PublicationLoop(pb_binders, 1).binders
    /\ pb_ret' = PublicationLoop(pb_binders, 1).ret
    /\ UNCHANGED <<pb_binders, notPub>>

NextPub == MakePublicationEpub

SpecPub == InitPub /\ [][NextPub]_vars

----------------------------------------------------------------------------
(* Properties of make_publication_epub *)

\* C30: make_publication_epub leaves the metadata of every binder as it
\* was before the call, the same dict with the same keys and so without
\* publisher and publication_message, when the packaging succeeds and when
\* the packaging of one of the binders raises.
C30_MetadataRestored ==
    pb_ret # <<>> =>
        \A i \in DOMAIN pb_binders :
            /\ pb_after[i].metadata = pb_binders[i].metadata
            /\ pb_after[i].metadata.keys \cap {"publisher", "publication_message"} = {}

\* What holds: the metadata is given back when every binder is packaged.
MetadataRestoredOnSuccess ==
    (pb_ret # <<>> /\ pb_ret[1] = "written") => pb_after = pb_binders

====
